---- MODULE Spec2Model ----
(***************************************************************************)
(* The image attachment session of InputBar.tsx and the image editor of    *)
(* ImageEditModal.tsx (filter model, layout metrics, annotation canvas),   *)
(* with the send path of App.tsx, and the image-history server.            *)
(*                                                                         *)
(* Conventions.  Indices are 0-based as in the source; At(s, i) reads a    *)
(* JavaScript array held as a TLA+ sequence.  A filter object is a record  *)
(* whose DOMAIN is the set of properties the JavaScript object has, so a   *)
(* property that was never written is absent (reads as undefined).  The    *)
(* field "ref" is the identity of the JavaScript object (React compares    *)
(* effect dependencies with Object.is); it is not a property of the        *)
(* source object.  Layout numbers are exact rationals [n, d] with d > 0:   *)
(* the source computes them in floating point.                             *)
(***************************************************************************)
EXTENDS Integers, Sequences, FiniteSets, TLC

(***************************************************************************)
(* Bounds of the model.                                                    *)
(***************************************************************************)
MaxImages == 2      \* files attached in one run
MaxEdits  == 1      \* filter edits (updateFilter / resetFilters) in one run
MaxMarks  == 2      \* paint operations held by the canvas raster
MaxFrames == 3      \* animation-frame callbacks waiting to run
MaxSends  == 2      \* sends InputBar.handleSend has started in one run
MaxRequests == 3    \* requests the image-history server receives in one run

(***************************************************************************)
(* Inputs the environment can supply.                                      *)
(***************************************************************************)
\* The files the user can attach, named after their intrinsic shape.
Files == {"wide", "tall"}
\* More shapes, for the specifications that study the layout alone.
LayoutFiles == Files \cup {"square", "pixel"}
\* The values the rotate button cycles through.
Rotations == {0, 90, 180, 270}
\* Texts the user can type in the prompt.
Prompts == {"", "hola"}
\* Bounding boxes of the preview container.  The container carries the
\* class p-4 (ImageEditModal.tsx:439): 16px of padding on each side, so its
\* border box is never smaller than 32 x 32.
ContainerRects == {[width |-> w, height |-> h] : w \in {32, 40, 800}, h \in {32, 40, 600}}
\* Slider positions of the model (whole numbers inside each slider's range).
BlurValues == {0, 5}
BrightnessValues == {100, 150}
ContrastValues == {100, 50}
\* Palette colours: the default and black, of COLORS.
Colors == {"#ffffff", "#000000"}
\* Pointer positions on the canvas.
Points == {[x |-> 10, y |-> 10], [x |-> 110, y |-> 60]}
\* Texts the user can type for a text annotation.
Texts == {"", " ", "nota"}

(***************************************************************************)
(* JavaScript arrays and objects.                                          *)
(***************************************************************************)
At(s, i) == s[i + 1]
InRange(s, i) == i >= 0 /\ i < Len(s)
Indices(s) == 0 .. (Len(s) - 1)
\* Array.prototype.filter((_, i) => i !== index)
RemoveAt(s, index) ==
    [j \in 1 .. (Len(s) - (IF InRange(s, index) THEN 1 ELSE 0)) |->
        IF j <= index THEN s[j] ELSE s[j + 1]]
\* Array.prototype.map((f, i) => i === index ? v : f)
ReplaceAt(s, index, v) ==
    [j \in 1 .. Len(s) |-> IF j = index + 1 THEN v ELSE s[j]]
Has(o, k) == k \in DOMAIN o
\* { ...prev, [key]: value } as a new object
Spread(prev, key, value, ref) ==
    [k \in (DOMAIN prev) \cup {key} |->
        IF k = key THEN value ELSE IF k = "ref" THEN ref ELSE prev[k]]
\* The seven properties of interface ImageFilters
FilterKeys == {"rotation", "inverted", "sepia", "grayscale", "blur", "brightness", "contrast"}
\* Object.is on one property of two filter objects (undefined when absent)
SameProp(a, b, k) ==
    IF Has(a, k) /\ Has(b, k) THEN a[k] = b[k] ELSE ~Has(a, k) /\ ~Has(b, k)
\* a and b carry the same properties with the same values (identity aside)
SameValue(a, b) == \A k \in FilterKeys : SameProp(a, b, k)

(***************************************************************************)
(* Filter model (ImageEditModal.tsx).                                      *)
(***************************************************************************)
defaultFilters ==
    [rotation |-> 0, inverted |-> FALSE, sepia |-> FALSE, grayscale |-> FALSE,
     blur |-> 0, brightness |-> 100, contrast |-> 100, ref |-> 0]

\* The object literal InputBar pushes for a newly attached image.
NewEntryFilters(ref) ==
    [rotation |-> 0, inverted |-> FALSE, sepia |-> FALSE, ref |-> ref]

Truthy(o, k) == Has(o, k) /\ o[k]
\* Template-literal text of a numeric property
NumText(o, k) == IF Has(o, k) THEN ToString(o[k]) ELSE "undefined"

\* filterList with brightness compared to 1 (a factor) instead of 100 (a percentage)
filterListFactor(f) ==
    LET l1 == IF Truthy(f, "inverted") THEN <<"invert(100%)">> ELSE <<>>
        l2 == IF Truthy(f, "sepia") THEN Append(l1, "sepia(100%)") ELSE l1
        l3 == IF Truthy(f, "grayscale") THEN Append(l2, "grayscale(100%)") ELSE l2
        l4 == IF Has(f, "blur") /\ f.blur > 0
                 THEN Append(l3, "blur(" \o NumText(f, "blur") \o "px)") ELSE l3
        l5 == IF ~Has(f, "brightness") \/ f.brightness # 1
                 THEN Append(l4, "brightness(" \o NumText(f, "brightness") \o "%)") ELSE l4
        l6 == IF ~Has(f, "contrast") \/ f.contrast # 100
                 THEN Append(l5, "contrast(" \o NumText(f, "contrast") \o "%)") ELSE l5
    IN  l6

\* filterList with sepia and grayscale pushed in the other order
filterListSwapped(f) ==
    LET l1 == IF Truthy(f, "inverted") THEN <<"invert(100%)">> ELSE <<>>
        l2 == IF Truthy(f, "grayscale") THEN Append(l1, "grayscale(100%)") ELSE l1
        l3 == IF Truthy(f, "sepia") THEN Append(l2, "sepia(100%)") ELSE l2
        l4 == IF Has(f, "blur") /\ f.blur > 0
                 THEN Append(l3, "blur(" \o NumText(f, "blur") \o "px)") ELSE l3
        l5 == IF ~Has(f, "brightness") \/ f.brightness # 100
                 THEN Append(l4, "brightness(" \o NumText(f, "brightness") \o "%)") ELSE l4
        l6 == IF ~Has(f, "contrast") \/ f.contrast # 100
                 THEN Append(l5, "contrast(" \o NumText(f, "contrast") \o "%)") ELSE l5
    IN  l6

\* The array `filters` that applyFilters builds, push by push.
filterList(f) ==
    LET l1 == IF Truthy(f, "inverted") THEN <<"invert(100%)">> ELSE <<>>
        l2 == IF Truthy(f, "sepia") THEN Append(l1, "sepia(100%)") ELSE l1
        l3 == IF Truthy(f, "grayscale") THEN Append(l2, "grayscale(100%)") ELSE l2
        l4 == IF Has(f, "blur") /\ f.blur > 0
                 THEN Append(l3, "blur(" \o NumText(f, "blur") \o "px)") ELSE l3
        l5 == IF ~Has(f, "brightness") \/ f.brightness # 100
                 THEN Append(l4, "brightness(" \o NumText(f, "brightness") \o "%)") ELSE l4
        l6 == IF ~Has(f, "contrast") \/ f.contrast # 100
                 THEN Append(l5, "contrast(" \o NumText(f, "contrast") \o "%)") ELSE l5
    IN  l6

RECURSIVE Join(_, _)
\* Array.prototype.join
Join(l, sep) ==
    IF l = <<>> THEN ""
    ELSE IF Len(l) = 1 THEN l[1]
    ELSE l[1] \o sep \o Join(Tail(l), sep)

applyFilters(f) == Join(filterList(f), " ")

(***************************************************************************)
(* Layout metrics (ImageEditModal.tsx, updateCanvasSize).                  *)
(***************************************************************************)
Padding == 32
\* img.width and img.height of a decoded file
ImgWidth(file) ==
    CASE file = "wide" -> 400 [] file = "tall" -> 200
      [] file = "square" -> 300 [] file = "pixel" -> 1
ImgHeight(file) ==
    CASE file = "wide" -> 200 [] file = "tall" -> 400
      [] file = "square" -> 300 [] file = "pixel" -> 1

\* Exact fractions n/d with d > 0, in lowest terms, for the program's doubles
RECURSIVE GCD(_, _)
GCD(a, b) == IF b = 0 THEN a ELSE GCD(b, a % b)
Rat(n, d) ==
    LET g == GCD(IF n < 0 THEN -n ELSE n, d)
    IN  [n |-> n \div g, d |-> d \div g]
RInt(k) == Rat(k, 1)
RLe(a, b) == a.n * b.d <= b.n * a.d
REq(a, b) == a.n * b.d = b.n * a.d
RAdd(a, b) == Rat(a.n * b.d + b.n * a.d, a.d * b.d)
RSub(a, b) == Rat(a.n * b.d - b.n * a.d, a.d * b.d)
RHalf(a) == Rat(a.n, 2 * a.d)

zeroMetrics ==
    [offsetX |-> RInt(0), offsetY |-> RInt(0),
     displayWidth |-> RInt(0), displayHeight |-> RInt(0)]

\* computeLayout with the aspect-ratio test reversed
computeLayoutReversed(file, rotation, rect) ==
    LET containerWidth == rect.width - Padding
        containerHeight == rect.height - Padding
        isRotated == rotation = 90 \/ rotation = 270
        imgWidth == IF isRotated THEN ImgHeight(file) ELSE ImgWidth(file)
        imgHeight == IF isRotated THEN ImgWidth(file) ELSE ImgHeight(file)
        widthBound == containerHeight # 0
                      /\ imgWidth * containerHeight < containerWidth * imgHeight
        displayWidth == IF widthBound THEN RInt(containerWidth)
                        ELSE Rat(containerHeight * imgWidth, imgHeight)
        displayHeight == IF widthBound THEN Rat(containerWidth * imgHeight, imgWidth)
                         ELSE RInt(containerHeight)
    IN  [offsetX |-> RHalf(RSub(RInt(rect.width), displayWidth)),
         offsetY |-> RHalf(RSub(RInt(rect.height), displayHeight)),
         displayWidth |-> displayWidth,
         displayHeight |-> displayHeight]

\* computeLayout without the exchange of width and height for 90 and 270
computeLayoutUnrotated(file, rotation, rect) ==
    LET containerWidth == rect.width - Padding
        containerHeight == rect.height - Padding
        imgWidth == ImgWidth(file)
        imgHeight == ImgHeight(file)
        widthBound == containerHeight # 0
                      /\ imgWidth * containerHeight > containerWidth * imgHeight
        displayWidth == IF widthBound THEN RInt(containerWidth)
                        ELSE Rat(containerHeight * imgWidth, imgHeight)
        displayHeight == IF widthBound THEN Rat(containerWidth * imgHeight, imgWidth)
                         ELSE RInt(containerHeight)
    IN  [offsetX |-> RHalf(RSub(RInt(rect.width), displayWidth)),
         offsetY |-> RHalf(RSub(RInt(rect.height), displayHeight)),
         displayWidth |-> displayWidth,
         displayHeight |-> displayHeight]

\* computeLayout without the subtraction of the padding
computeLayoutUnpadded(file, rotation, rect) ==
    LET containerWidth == rect.width
        containerHeight == rect.height
        isRotated == rotation = 90 \/ rotation = 270
        imgWidth == IF isRotated THEN ImgHeight(file) ELSE ImgWidth(file)
        imgHeight == IF isRotated THEN ImgWidth(file) ELSE ImgHeight(file)
        widthBound == containerHeight # 0
                      /\ imgWidth * containerHeight > containerWidth * imgHeight
        displayWidth == IF widthBound THEN RInt(containerWidth)
                        ELSE Rat(containerHeight * imgWidth, imgHeight)
        displayHeight == IF widthBound THEN Rat(containerWidth * imgHeight, imgWidth)
                         ELSE RInt(containerHeight)
    IN  [offsetX |-> RHalf(RSub(RInt(rect.width), displayWidth)),
         offsetY |-> RHalf(RSub(RInt(rect.height), displayHeight)),
         displayWidth |-> displayWidth,
         displayHeight |-> displayHeight]

\* The metrics updateCanvasSize stores for image `file`, the rotation its
\* closure sees and the container's bounding box `rect`.
computeLayout(file, rotation, rect) ==
    LET containerWidth == rect.width - Padding
        containerHeight == rect.height - Padding
        isRotated == rotation = 90 \/ rotation = 270
        imgWidth == IF isRotated THEN ImgHeight(file) ELSE ImgWidth(file)
        imgHeight == IF isRotated THEN ImgWidth(file) ELSE ImgHeight(file)
        \* imgAspectRatio > containerAspectRatio; a container height of 0
        \* makes the right side Infinity or NaN, and the test false
        widthBound == containerHeight # 0
                      /\ imgWidth * containerHeight > containerWidth * imgHeight
        displayWidth == IF widthBound THEN RInt(containerWidth)
                        ELSE Rat(containerHeight * imgWidth, imgHeight)
        displayHeight == IF widthBound THEN Rat(containerWidth * imgHeight, imgWidth)
                         ELSE RInt(containerHeight)
    IN  [offsetX |-> RHalf(RSub(RInt(rect.width), displayWidth)),
         offsetY |-> RHalf(RSub(RInt(rect.height), displayHeight)),
         displayWidth |-> displayWidth,
         displayHeight |-> displayHeight]

(***************************************************************************)
(* State.                                                                  *)
(***************************************************************************)
VARIABLES
    \* InputBar.tsx
    prompt,              \* useState('')
    imageFiles,          \* useState<File[]>([])
    imagePreviews,       \* useState<string[]>([])
    imageFilters,        \* useState<any[]>([])
    isEditModalOpen,     \* useState(false)
    selectedImageIndex,  \* useState(0)
    pendingReads,        \* FileReaders whose onloadend has not run: file -> count
    pendingSends,        \* handleSend calls waiting on Promise.all
    sends,               \* handleSend calls started so far
    attached,            \* files attached so far
    \* App.tsx
    isLoading,           \* useState(false)
    messages,            \* roles of the chat messages
    queries,             \* runQuery calls that have not returned
    \* ImageEditModal.tsx
    editFilters,         \* useState<ImageFilters>(defaultFilters), the modal's imageFilters
    activeTab,           \* useState('filters')
    drawingState,        \* useState(defaultDrawingState)
    textAnnotations,     \* useState<TextAnnotation[]>([])
    currentText,         \* useState('')
    textPosition,        \* useState(null)
    canvas,              \* the <canvas> behind canvasRef: its size, bitmap and path
    imageRef,            \* imageRef.current
    layoutMetrics,       \* layoutMetricsRef.current
    containerRect,       \* containerRef.current.getBoundingClientRect()
    pendingLoads,        \* Image objects whose onload has not run
    frames,              \* requestAnimationFrame callbacks, oldest first
    edits,               \* filter edits made so far
    leftWith,            \* history: the image last selected away from, and what the editor held for it
    drawingData,         \* the drawingData argument of the latest onUpdate call
    imagePayloads,       \* the imagePayloads argument of the latest onSend call
    \* the image-history server
    metadataFile,        \* generated-images/metadata.json: NoFile or its parsed content
    imagesDir,           \* the image files of generated-images/, by file name
    requests,            \* the requests being handled, each at one of its awaits
    responses            \* history: the responses sent, oldest first

sessionVars == <<prompt, imageFiles, imagePreviews, imageFilters, isEditModalOpen,
                 selectedImageIndex, pendingReads, pendingSends, sends, attached>>
appVars == <<isLoading, messages, queries>>
drawVars == <<activeTab, drawingState, currentText, textPosition>>
editorVars == <<editFilters, textAnnotations, canvas, imageRef, layoutMetrics,
                containerRect, pendingLoads, frames, edits, leftWith, drawingData, imagePayloads>>
serverVars == <<metadataFile, imagesDir, requests, responses>>
vars == <<sessionVars, appVars, drawVars, editorVars, serverVars>>

\* metadata.json has not been written
NoFile == [exists |-> FALSE, entries |-> <<>>]

\* The server has started on an empty generated-images/ and is idle.
ServerStarted ==
    /\ metadataFile = NoFile
    /\ imagesDir = {}
    /\ requests = {}
    /\ responses = <<>>

defaultDrawingState ==
    [isDrawing |-> FALSE, tool |-> "brush", color |-> "#ffffff", size |-> 3,
     opacity |-> 100, startX |-> 0, startY |-> 0]

\* No <canvas> element is rendered: canvasRef.current is null.
NoCanvas ==
    [mounted |-> FALSE, width |-> 0, height |-> 0, marks |-> <<>>, path |-> <<>>,
     strokeStyle |-> "#000000", lineCap |-> "butt"]
\* A newly created <canvas>: 300 x 150, transparent, empty path, and a context
\* in its initial state (strokeStyle black, lineCap butt).
FreshCanvas ==
    [mounted |-> TRUE, width |-> 300, height |-> 150, marks |-> <<>>, path |-> <<>>,
     strokeStyle |-> "#000000", lineCap |-> "butt"]

NotLeft ==
    [seen |-> FALSE, index |-> 0, marks |-> <<>>, texts |-> <<>>,
     filters |-> defaultFilters]

NoImage == "none"
\* The value of an argument that was not given (a record, as the values
\* it is compared with are records)
Undefined == [undefined |-> TRUE]
NoPosition == [set |-> FALSE, x |-> 0, y |-> 0]

\* isLoading || disabled, with the API configured (disabled = !isApiConfigured)
isDisabled == isLoading

\* The object a prop or state holds, by identity; -1 stands for undefined.
InitialRef(filters, index) ==
    IF InRange(filters, index) THEN At(filters, index).ref ELSE -1

\* The filter objects alive in the session and the editor.
UsedRefs ==
    {imageFilters[j].ref : j \in 1 .. Len(imageFilters)} \cup {editFilters.ref, 0}
\* Identities for n new objects
NewRefs(n) ==
    LET free == (1 .. (Cardinality(UsedRefs) + n)) \ UsedRefs
        pick[k \in 0 .. n] ==
            IF k = 0 THEN <<>>
            ELSE Append(pick[k - 1],
                        CHOOSE r \in free :
                            r \notin {pick[k - 1][j] : j \in 1 .. (k - 1)}
                            /\ \A q \in free :
                                 q < r => q \in {pick[k - 1][j] : j \in 1 .. (k - 1)})
    IN  pick[n]
NewRef == NewRefs(1)[1]

Init ==
    /\ prompt = ""
    /\ imageFiles = <<>>
    /\ imagePreviews = <<>>
    /\ imageFilters = <<>>
    /\ isEditModalOpen = FALSE
    /\ selectedImageIndex = 0
    /\ pendingReads = [f \in Files |-> 0]
    /\ pendingSends = {}
    /\ sends = 0
    /\ attached = 0
    /\ isLoading = FALSE
    /\ messages = <<>>
    /\ queries = 0
    /\ editFilters = defaultFilters
    /\ activeTab = "filters"
    /\ drawingState = defaultDrawingState
    /\ textAnnotations = <<>>
    /\ currentText = ""
    /\ textPosition = NoPosition
    /\ canvas = NoCanvas
    /\ imageRef = NoImage
    /\ layoutMetrics = zeroMetrics
    /\ containerRect \in ContainerRects
    /\ pendingLoads = {}
    /\ frames = <<>>
    /\ edits = 0
    /\ leftWith = NotLeft
    /\ drawingData = Undefined
    /\ imagePayloads = <<>>
    /\ ServerStarted

(***************************************************************************)
(* The effects of ImageEditModal, run after the render that follows an     *)
(* event handler.  previewsN, filtersN, selN, openN are the props of that  *)
(* render; imagesChanged says that the handler stored a new imagePreviews  *)
(* array; edF, texts, cv are the modal's state as the handler left it.     *)
(***************************************************************************)
\* updateCanvasSize as run by a closure that sees `rotation`
updateCanvasSize(rotation, cv, open) ==
    IF imageRef = NoImage \/ ~open \/ ~cv.mounted
    THEN /\ canvas' = cv
         /\ layoutMetrics' = layoutMetrics
    ELSE \* assigning canvas.width empties the bitmap and resets the context
         /\ canvas' = [mounted |-> TRUE, width |-> containerRect'.width,
                       height |-> containerRect'.height, marks |-> <<>>, path |-> <<>>,
                       strokeStyle |-> "#000000", lineCap |-> "butt"]
         /\ layoutMetrics' = computeLayout(imageRef, rotation, containerRect')

\* A clearRect that has been left out
clearRectOmitted(cv) == cv

\* ctx.clearRect(0, 0, canvas.width, canvas.height): the bitmap becomes transparent
clearRect(cv) == [cv EXCEPT !.marks = <<>>]

RunEffects(previewsN, filtersN, selN, openN, imagesChanged, edF, texts, cv) ==
    LET mountedN == openN /\ InRange(previewsN, selN)
        \* useEffect(..., [selectedIndex, initialFilters])
        e1 == selN # selectedImageIndex
              \/ InitialRef(filtersN, selN) # InitialRef(imageFilters, selectedImageIndex)
        cv1 == IF ~mountedN THEN NoCanvas
               ELSE IF ~cv.mounted THEN FreshCanvas ELSE cv
        cv2 == IF e1 THEN clearRect(cv1) ELSE cv1
        edN == IF ~e1 THEN edF
               ELSE IF InRange(filtersN, selN) THEN At(filtersN, selN) ELSE defaultFilters
        \* useEffect(..., [images, selectedIndex])
        e2 == (imagesChanged \/ selN # selectedImageIndex) /\ mountedN
        \* useEffect(..., [imageFilters.rotation, ..., imageFilters.contrast])
        e5 == ~SameValue(edN, editFilters)
    IN  /\ imagePreviews' = previewsN
        /\ imageFilters' = filtersN
        /\ selectedImageIndex' = selN
        /\ isEditModalOpen' = openN
        /\ editFilters' = edN
        /\ textAnnotations' = IF e1 THEN <<>> ELSE texts
        /\ canvas' = cv2
        /\ pendingLoads' = IF e2
                           THEN pendingLoads \cup
                                {[file |-> At(previewsN, selN), rotation |-> edF.rotation]}
                           ELSE pendingLoads
        /\ frames' = IF e5 THEN Append(frames, edN.rotation) ELSE frames
        /\ Len(frames') <= MaxFrames
        /\ Cardinality(pendingLoads') <= MaxFrames

(***************************************************************************)
(* InputBar.tsx.  The open modal covers the page (fixed inset-0 z-50), so  *)
(* the controls of InputBar are reached only while it is closed.           *)
(***************************************************************************)
\* A FileReader is started for each file; imageFiles grows at once.
AttachFiles(newFiles) ==
    /\ ~isDisabled
    /\ ~isEditModalOpen
    /\ attached + Len(newFiles) <= MaxImages
    /\ attached' = attached + Len(newFiles)
    /\ imageFiles' = imageFiles \o newFiles
    /\ pendingReads' =
         [f \in Files |->
            pendingReads[f] + Cardinality({j \in 1 .. Len(newFiles) : newFiles[j] = f})]
    /\ UNCHANGED <<prompt, imagePreviews, imageFilters, isEditModalOpen,
                   selectedImageIndex, pendingSends, sends>>
    /\ UNCHANGED <<appVars, drawVars, editorVars, serverVars>>

handleFileChange ==
    \E a \in Files, b \in Files, n \in 1 .. 2 :
        AttachFiles(IF n = 1 THEN <<a>> ELSE <<a, b>>)

handlePaste == \E f \in Files : AttachFiles(<<f>>)

setPrompt ==
    /\ ~isDisabled
    /\ ~isEditModalOpen
    /\ \E p \in Prompts : p # prompt /\ prompt' = p
    /\ UNCHANGED <<imageFiles, imagePreviews, imageFilters, isEditModalOpen,
                   selectedImageIndex, pendingReads, pendingSends, sends, attached>>
    /\ UNCHANGED <<appVars, drawVars, editorVars, serverVars>>

\* reader.onloadend of handleFileChange and of handlePaste
onloadend ==
    \E f \in Files :
        /\ pendingReads[f] > 0
        /\ pendingReads' = [pendingReads EXCEPT ![f] = @ - 1]
        /\ RunEffects(Append(imagePreviews, f),
                      Append(imageFilters, NewEntryFilters(NewRef)),
                      selectedImageIndex, isEditModalOpen, TRUE,
                      editFilters, textAnnotations, canvas)
        /\ UNCHANGED <<prompt, imageFiles, pendingSends, sends, attached>>
        /\ UNCHANGED <<appVars, drawVars, imageRef, layoutMetrics, containerRect, edits, leftWith, drawingData, imagePayloads, serverVars>>

removeImage(index) ==
    /\ ~isEditModalOpen
    /\ InRange(imagePreviews, index)
    /\ imageFiles' = RemoveAt(imageFiles, index)
    /\ RunEffects(RemoveAt(imagePreviews, index), RemoveAt(imageFilters, index),
                  selectedImageIndex, isEditModalOpen, TRUE,
                  editFilters, textAnnotations, canvas)
    \* the positions shift: what was recorded about them no longer applies
    /\ leftWith' = NotLeft
    /\ UNCHANGED <<drawingData, imagePayloads, serverVars>>
    /\ UNCHANGED <<prompt, pendingReads, pendingSends, sends, attached>>
    /\ UNCHANGED <<appVars, drawVars, imageRef, layoutMetrics, containerRect, edits>>

RemoveImageClick == \E index \in 0 .. MaxImages : removeImage(index)

\* The "Toggle Image Edit Mode" button: setIsEditModalOpen(true)
openEditModal ==
    /\ ~isDisabled
    /\ Len(imageFiles) > 0
    /\ ~isEditModalOpen
    /\ RunEffects(imagePreviews, imageFilters, selectedImageIndex, TRUE, FALSE,
                  editFilters, textAnnotations, canvas)
    /\ UNCHANGED <<prompt, imageFiles, pendingReads, pendingSends, sends, attached>>
    /\ UNCHANGED <<appVars, drawVars, imageRef, layoutMetrics, containerRect, edits, leftWith, drawingData, imagePayloads, serverVars>>

\* The pixel loop of applyFiltersToImage: the effects it applies, in order
pixelEffects(filters) ==
    IF Truthy(filters, "inverted") \/ Truthy(filters, "sepia")
    THEN (IF Truthy(filters, "inverted") THEN <<"inverted">> ELSE <<>>)
         \o (IF Truthy(filters, "sepia") THEN <<"sepia">> ELSE <<>>)
    ELSE <<>>

\* applyFiltersToImage(imageUrl, filters): the PNG of finalCanvas, which holds
\* the images drawn into tempCanvas, the effects applied to their pixels,
\* and the rotation and size of finalCanvas
applyFiltersToImage(imageUrl, filters) ==
    LET swapped == filters.rotation = 90 \/ filters.rotation = 270
    IN  [drawn |-> <<imageUrl>>,
         effects |-> pixelEffects(filters),
         rotation |-> filters.rotation,
         width |-> IF swapped THEN ImgHeight(imageUrl) ELSE ImgWidth(imageUrl),
         height |-> IF swapped THEN ImgWidth(imageUrl) ELSE ImgHeight(imageUrl)]

\* InputBar.handleSend up to its await: the closure keeps the state it read.
handleSend ==
    /\ ~isDisabled
    /\ ~isEditModalOpen
    /\ prompt # "" \/ Len(imageFiles) > 0
    /\ sends < MaxSends
    /\ sends' = sends + 1
    /\ pendingSends' = pendingSends \cup
         {[id |-> sends, prompt |-> prompt, previews |-> imagePreviews,
           filters |-> imageFilters, isImageEditMode |-> Len(imageFiles) > 0]}
    /\ UNCHANGED <<prompt, imageFiles, imagePreviews, imageFilters, isEditModalOpen,
                   selectedImageIndex, pendingReads, attached>>
    /\ UNCHANGED <<appVars, drawVars, editorVars, serverVars>>

\* Promise.all has resolved: onSend (App.handleSend up to its await), then
\* the four setState calls that empty the input.
handleSendResume ==
    \E s \in pendingSends :
        /\ pendingSends' = pendingSends \ {s}
        /\ IF s.prompt = "" /\ Len(s.previews) = 0
           THEN UNCHANGED appVars
           ELSE /\ isLoading' = TRUE
                /\ messages' = Append(messages, "user")
                /\ queries' = queries + 1
        /\ prompt' = ""
        /\ imageFiles' = <<>>
        /\ RunEffects(<<>>, <<>>, selectedImageIndex, isEditModalOpen, TRUE,
                      editFilters, textAnnotations, canvas)
        /\ leftWith' = NotLeft
        /\ imagePayloads' = [j \in 1 .. Len(s.previews) |->
                                applyFiltersToImage(s.previews[j], s.filters[j])]
        /\ UNCHANGED <<drawingData, serverVars>>
        /\ UNCHANGED <<pendingReads, sends, attached>>
        /\ UNCHANGED <<drawVars, imageRef, layoutMetrics, containerRect, edits>>

\* App.handleSend after its await: the answer or the error is appended.
runQueryReturns ==
    /\ queries > 0
    /\ queries' = queries - 1
    /\ \E role \in {"model", "error"} : messages' = Append(messages, role)
    /\ isLoading' = FALSE
    /\ UNCHANGED <<sessionVars, drawVars, editorVars, serverVars>>

(***************************************************************************)
(* ImageEditModal.tsx: the bitmap of the annotation canvas.  The bitmap is *)
(* observed at sample pixels: the pixel under each pointer position, and a *)
(* pixel inside the glyphs of a text stamped at that position.  The        *)
(* opacity slider stays at 100 (its minimum is 10, so every paint          *)
(* operation leaves alpha > 0 where it paints).                            *)
(***************************************************************************)
Samples == {[glyph |-> g, x |-> p.x, y |-> p.y] : g \in BOOLEAN, p \in Points}
Pixel(x, y) == [glyph |-> FALSE, x |-> x, y |-> y]
Glyph(x, y) == [glyph |-> TRUE, x |-> x, y |-> y]

\* getCanvasCoordinates: an event on the canvas has a position inside it
OnCanvas(cv, p) == p.x >= 0 /\ p.x < cv.width /\ p.y >= 0 /\ p.y < cv.height

\* The sample pixels a paint operation paints
Covered(mark) ==
    IF mark.kind = "stroke"
    THEN \* ctx.stroke() of the current path; a path without length paints
         \* a dot with round caps and nothing with butt caps
         IF Len(mark.path) >= 2
            /\ (mark.lineCap = "round"
                \/ \E j \in 1 .. Len(mark.path) : mark.path[j] # mark.path[1])
         THEN {Pixel(mark.path[j].x, mark.path[j].y) : j \in 1 .. Len(mark.path)}
         ELSE {}
    ELSE IF mark.kind = "rectangle"
    THEN IF mark.width = 0 /\ mark.height = 0 THEN {}
         ELSE {Pixel(mark.x, mark.y), Pixel(mark.x + mark.width, mark.y + mark.height)}
    ELSE IF mark.kind = "circle"
    THEN IF mark.radiusSquared = 0 THEN {}
         ELSE {s \in Samples :
                 /\ ~s.glyph
                 /\ (s.x - mark.x) * (s.x - mark.x) + (s.y - mark.y) * (s.y - mark.y)
                      = mark.radiusSquared}
    ELSE IF mark.kind = "arrow"
    THEN \* the line, and the filled head at its end
         {Pixel(mark.x, mark.y), Pixel(mark.toX, mark.toY)}
    ELSE \* fillText
         {Glyph(mark.x, mark.y)}

\* [r, g, b, a] of a pixel
Transparent == <<0, 0, 0, 0>>
Rgba(color) ==
    IF color = "#ffffff" THEN <<255, 255, 255, 255>> ELSE <<0, 0, 0, 255>>

\* The bitmap after the paint operations, in order
RECURSIVE Bitmap(_)
Bitmap(marks) ==
    IF marks = <<>> THEN [s \in Samples |-> Transparent]
    ELSE LET below == Bitmap(SubSeq(marks, 1, Len(marks) - 1))
             mark == marks[Len(marks)]
             erases == mark.kind = "stroke" /\ mark.composite = "destination-out"
         IN  [s \in Samples |->
                 IF s \notin Covered(mark) THEN below[s]
                 ELSE IF erases THEN Transparent
                 ELSE Rgba(mark.color)]

\* ctx.getImageData(0, 0, canvas.width, canvas.height).data, by sample pixel
getImageData(cv) ==
    LET inside == {s \in Samples : OnCanvas(cv, s)}
    IN  [s \in inside |-> Bitmap(cv.marks)[s]]

\* imageData.data.some((value, index) => index % 4 !== 3 && value !== 0)
hasDrawing(cv) ==
    /\ cv.mounted
    /\ \E s \in DOMAIN getImageData(cv) :
           \E index \in 0 .. 3 :
               index % 4 # 3 /\ getImageData(cv)[s][index + 1] # 0

\* RLe(a, b) without equality
RLt(a, b) == a.n * b.d < b.n * a.d

\* canvas.toDataURL('image/png') of a canvas that holds the rectangle
\* (x, y, width, height) of the bitmap painted by marks
toDataURL(marks, x, y, width, height) ==
    [marks |-> marks, x |-> x, y |-> y, width |-> width, height |-> height]

\* The drawingData handleUpdate computes
exportDrawing(cv, texts, metrics) ==
    IF cv.mounted /\ (Len(texts) > 0 \/ hasDrawing(cv))
    THEN IF RLt(RInt(0), metrics.displayWidth) /\ RLt(RInt(0), metrics.displayHeight)
         THEN toDataURL(cv.marks, metrics.offsetX, metrics.offsetY,
                        metrics.displayWidth, metrics.displayHeight)
         ELSE toDataURL(cv.marks, RInt(0), RInt(0), RInt(cv.width), RInt(cv.height))
    ELSE Undefined

(***************************************************************************)
(* ImageEditModal.tsx: selection, filters, apply and close.                *)
(***************************************************************************)
sessionRest == <<prompt, imageFiles, pendingReads, pendingSends, sends, attached>>

\* A thumbnail click: onSelect(index), InputBar's setSelectedImageIndex
onSelect(index) ==
    /\ isEditModalOpen
    /\ InRange(imagePreviews, index)
    /\ index # selectedImageIndex
    /\ RunEffects(imagePreviews, imageFilters, index, TRUE, FALSE,
                  editFilters, textAnnotations, canvas)
    /\ leftWith' = [seen |-> TRUE, index |-> selectedImageIndex, marks |-> canvas.marks,
                    texts |-> textAnnotations, filters |-> editFilters]
    /\ UNCHANGED <<drawingData, imagePayloads, serverVars>>
    /\ UNCHANGED <<sessionRest, appVars, drawVars, imageRef, layoutMetrics,
                   containerRect, edits>>

SelectClick == \E index \in 0 .. MaxImages : onSelect(index)

\* a close that stores the editor's parameters in the active entry
onCloseStoring ==
    /\ isEditModalOpen
    /\ RunEffects(imagePreviews,
                  ReplaceAt(imageFilters, selectedImageIndex, editFilters),
                  selectedImageIndex, FALSE, FALSE,
                  editFilters, textAnnotations, canvas)
    /\ UNCHANGED <<sessionRest, appVars, drawVars, imageRef, layoutMetrics,
                   containerRect, edits, leftWith, drawingData, imagePayloads, serverVars>>

\* The backdrop or the close button: onClose without onUpdate
onClose ==
    /\ isEditModalOpen
    /\ RunEffects(imagePreviews, imageFilters, selectedImageIndex, FALSE, FALSE,
                  editFilters, textAnnotations, canvas)
    /\ UNCHANGED <<sessionRest, appVars, drawVars, imageRef, layoutMetrics,
                   containerRect, edits, leftWith, drawingData, imagePayloads, serverVars>>

\* handleUpdateFilters without its test of the position
handleUpdateFiltersEverywhere(filters, index, newFilters) ==
    [j \in 1 .. Len(filters) |-> newFilters]

\* InputBar.handleUpdateFilters: the drawingData argument has no parameter
handleUpdateFilters(filters, index, newFilters) ==
    ReplaceAt(filters, index, newFilters)

\* "Aplicar Cambios": onUpdate(selectedIndex, imageFilters, drawingData); onClose()
handleUpdate ==
    /\ isEditModalOpen
    /\ RunEffects(imagePreviews,
                  handleUpdateFilters(imageFilters, selectedImageIndex, editFilters),
                  selectedImageIndex, FALSE, FALSE,
                  editFilters, textAnnotations, canvas)
    /\ drawingData' = exportDrawing(canvas, textAnnotations, layoutMetrics)
    /\ UNCHANGED <<sessionRest, appVars, drawVars, imageRef, layoutMetrics,
                   containerRect, edits, leftWith, imagePayloads, serverVars>>

\* updateFilter(key, value): setImageFilters(prev => ({ ...prev, [key]: value }))
updateFilter(key, value) ==
    /\ isEditModalOpen
    /\ activeTab = "filters"
    /\ edits < MaxEdits
    /\ edits' = edits + 1
    /\ RunEffects(imagePreviews, imageFilters, selectedImageIndex, TRUE, FALSE,
                  Spread(editFilters, key, value, NewRef), textAnnotations, canvas)
    /\ UNCHANGED <<sessionRest, appVars, drawVars, imageRef, layoutMetrics,
                   containerRect, leftWith, drawingData, imagePayloads, serverVars>>

ToggleInverted == updateFilter("inverted", ~Truthy(editFilters, "inverted"))
ToggleSepia == updateFilter("sepia", ~Truthy(editFilters, "sepia"))
ToggleGrayscale == updateFilter("grayscale", ~Truthy(editFilters, "grayscale"))
\* a quarter turn that is not reduced
rotateQuarterUnreduced(rotation) == rotation + 90

\* "Rotar": (imageFilters.rotation + 90) % 360
rotateQuarter(rotation) == (rotation + 90) % 360

Rotate == updateFilter("rotation", rotateQuarter(editFilters.rotation))
\* A range input reports a change only when its position changes.
SetBlur ==
    \E v \in BlurValues :
        /\ ~(Has(editFilters, "blur") /\ editFilters.blur = v)
        /\ updateFilter("blur", v)
SetBrightness ==
    \E v \in BrightnessValues :
        /\ ~(Has(editFilters, "brightness") /\ editFilters.brightness = v)
        /\ updateFilter("brightness", v)
SetContrast ==
    \E v \in ContrastValues :
        /\ ~(Has(editFilters, "contrast") /\ editFilters.contrast = v)
        /\ updateFilter("contrast", v)

\* "Restablecer": setImageFilters(defaultFilters)
resetFilters ==
    /\ isEditModalOpen
    /\ editFilters.ref # defaultFilters.ref
    /\ RunEffects(imagePreviews, imageFilters, selectedImageIndex, TRUE, FALSE,
                  defaultFilters, textAnnotations, canvas)
    /\ UNCHANGED <<sessionRest, appVars, drawVars, imageRef, layoutMetrics,
                   containerRect, edits, leftWith, drawingData, imagePayloads, serverVars>>

\* setActiveTab(tab), and the effect on [activeTab]
setActiveTab ==
    \E tab \in {"filters", "draw", "text"} :
        /\ isEditModalOpen
        /\ tab # activeTab
        /\ activeTab' = tab
        /\ frames' = IF tab \in {"draw", "text"}
                     THEN Append(frames, editFilters.rotation) ELSE frames
        /\ Len(frames') <= MaxFrames
        /\ UNCHANGED <<sessionVars, appVars, drawingState, currentText, textPosition,
                       editFilters, textAnnotations, canvas, imageRef, layoutMetrics,
                       containerRect, pendingLoads, edits, leftWith, drawingData, imagePayloads, serverVars>>

(***************************************************************************)
(* ImageEditModal.tsx: the callbacks that end in updateCanvasSize.         *)
(***************************************************************************)
\* img.onload of the effect on [images, selectedIndex]
onload ==
    \E l \in pendingLoads :
        /\ pendingLoads' = pendingLoads \ {l}
        /\ imageRef' = l.file
        /\ frames' = Append(frames, l.rotation)
        /\ Len(frames') <= MaxFrames
        /\ UNCHANGED <<sessionVars, appVars, drawVars, editFilters, textAnnotations,
                       canvas, layoutMetrics, containerRect, edits, leftWith, drawingData, imagePayloads, serverVars>>

\* The oldest requestAnimationFrame callback runs updateCanvasSize with the
\* rotation of the render that scheduled it.
animationFrame ==
    /\ frames # <<>>
    /\ frames' = Tail(frames)
    /\ containerRect' = containerRect
    /\ updateCanvasSize(Head(frames), canvas, isEditModalOpen)
    /\ UNCHANGED <<sessionVars, appVars, drawVars, editFilters, textAnnotations,
                   imageRef, pendingLoads, edits, leftWith, drawingData, imagePayloads, serverVars>>

\* The window is resized: the listener registered by the first render runs
\* updateCanvasSize, whose closure holds the first render's imageFilters.
handleResize ==
    /\ \E r \in ContainerRects : r # containerRect /\ containerRect' = r
    /\ updateCanvasSize(defaultFilters.rotation, canvas, isEditModalOpen)
    /\ UNCHANGED <<sessionVars, appVars, drawVars, editFilters, textAnnotations,
                   imageRef, pendingLoads, frames, edits, leftWith, drawingData, imagePayloads, serverVars>>

(***************************************************************************)
(* ImageEditModal.tsx: the annotation canvas.  The raster is the sequence  *)
(* of paint operations applied since the bitmap was last emptied.          *)
(***************************************************************************)
Tools == {"brush", "rectangle", "circle", "arrow", "text", "eraser"}

\* A tool button: setDrawingState(prev => ({ ...prev, tool }))
setTool(tool) ==
    /\ isEditModalOpen
    /\ activeTab = "draw"
    /\ tool # drawingState.tool
    /\ drawingState' = [drawingState EXCEPT !.tool = tool]
    /\ UNCHANGED <<sessionVars, appVars, activeTab, currentText, textPosition,
                   editorVars, serverVars>>

ToolClick == \E tool \in Tools : setTool(tool)
SelectTextTool == setTool("text")

\* A palette button: setDrawingState(prev => ({ ...prev, color }))
setColor(color) ==
    /\ isEditModalOpen
    /\ activeTab = "draw"
    /\ color # drawingState.color
    /\ drawingState' = [drawingState EXCEPT !.color = color]
    /\ UNCHANGED <<sessionVars, appVars, activeTab, currentText, textPosition,
                   editorVars, serverVars>>

ColorClick == \E color \in Colors : setColor(color)

\* startDrawing without its branch for the text tool
startDrawingAnyTool(p) ==
    /\ canvas.mounted
    /\ OnCanvas(canvas, p)
    /\ drawingState' = [drawingState EXCEPT !.isDrawing = TRUE,
                                            !.startX = p.x, !.startY = p.y]
    /\ canvas' = [canvas EXCEPT !.path = <<p>>,
                                !.strokeStyle = drawingState.color,
                                !.lineCap = "round"]
    /\ UNCHANGED <<sessionVars, appVars, activeTab, currentText, textPosition,
                   editFilters, textAnnotations, imageRef, layoutMetrics,
                   containerRect, pendingLoads, frames, edits, leftWith,
                   drawingData, imagePayloads, serverVars>>

\* onMouseDown at canvas coordinates p
startDrawing(p) ==
    /\ canvas.mounted
    /\ OnCanvas(canvas, p)
    /\ IF drawingState.tool = "text"
       THEN /\ textPosition' = [set |-> TRUE, x |-> p.x, y |-> p.y]
            /\ UNCHANGED <<drawingState, canvas>>
       ELSE /\ drawingState' = [drawingState EXCEPT !.isDrawing = TRUE,
                                                    !.startX = p.x, !.startY = p.y]
            \* ctx.beginPath(); ctx.moveTo(coords.x, coords.y);
            \* ctx.strokeStyle = drawingState.color; ctx.lineCap = 'round'
            /\ canvas' = [canvas EXCEPT !.path = <<p>>,
                                        !.strokeStyle = drawingState.color,
                                        !.lineCap = "round"]
            /\ UNCHANGED textPosition
    /\ UNCHANGED <<sessionVars, appVars, activeTab, currentText, editFilters,
                   textAnnotations, imageRef, layoutMetrics, containerRect,
                   pendingLoads, frames, edits, leftWith, drawingData, imagePayloads, serverVars>>

onMouseDown == \E p \in Points : startDrawing(p)

\* onMouseMove: ctx.lineTo(coords.x, coords.y); ctx.stroke() strokes the path
draw(p) ==
    /\ canvas.mounted
    /\ OnCanvas(canvas, p)
    /\ drawingState.isDrawing
    /\ drawingState.tool \in {"brush", "eraser"}
    /\ Len(canvas.marks) < MaxMarks
    /\ Len(canvas.path) <= MaxMarks
    /\ LET path == Append(canvas.path, p)
           op == IF drawingState.tool = "eraser"
                 THEN "destination-out" ELSE "source-over"
       IN  canvas' = [canvas EXCEPT
               !.path = path,
               !.marks = Append(@, [kind |-> "stroke", composite |-> op,
                                    color |-> canvas.strokeStyle,
                                    lineCap |-> canvas.lineCap, path |-> path])]
    /\ UNCHANGED <<sessionVars, appVars, drawVars, editFilters, textAnnotations,
                   imageRef, layoutMetrics, containerRect, pendingLoads, frames,
                   edits, leftWith, drawingData, imagePayloads, serverVars>>

onMouseMove == \E p \in Points : draw(p)

\* ShapeMarks with the release point taken as the size of the rectangle
ShapeMarksSizedByRelease(tool, color, sx, sy, p) ==
    IF tool = "rectangle"
    THEN <<[kind |-> "rectangle", color |-> color, x |-> sx, y |-> sy,
            width |-> p.x, height |-> p.y]>>
    ELSE IF tool = "circle"
    THEN <<[kind |-> "circle", color |-> color, x |-> sx, y |-> sy,
            radiusSquared |-> (p.x - sx) * (p.x - sx) + (p.y - sy) * (p.y - sy)]>>
    ELSE IF tool = "arrow"
    THEN <<[kind |-> "arrow", color |-> color, x |-> sx, y |-> sy,
            toX |-> p.x, toY |-> p.y]>>
    ELSE <<>>

\* The paint operation stopDrawing applies for the tool, if any
ShapeMarks(tool, color, sx, sy, p) ==
    IF tool = "rectangle"
    THEN <<[kind |-> "rectangle", color |-> color, x |-> sx, y |-> sy,
            width |-> p.x - sx, height |-> p.y - sy]>>
    ELSE IF tool = "circle"
    THEN <<[kind |-> "circle", color |-> color, x |-> sx, y |-> sy,
            radiusSquared |-> (p.x - sx) * (p.x - sx) + (p.y - sy) * (p.y - sy)]>>
    ELSE IF tool = "arrow"
    THEN <<[kind |-> "arrow", color |-> color, x |-> sx, y |-> sy,
            toX |-> p.x, toY |-> p.y]>>
    ELSE <<>>

stopDrawing(p) ==
    /\ canvas.mounted
    /\ OnCanvas(canvas, p)
    /\ drawingState.isDrawing
    /\ LET stamped == ShapeMarks(drawingState.tool, drawingState.color,
                                 drawingState.startX, drawingState.startY, p)
       IN  /\ Len(canvas.marks) + Len(stamped) <= MaxMarks
           /\ canvas' = [canvas EXCEPT
                   !.marks = @ \o stamped,
                   \* circle and arrow call ctx.beginPath()
                   !.path = IF drawingState.tool \in {"circle", "arrow"}
                            THEN <<>> ELSE @,
                   \* the shapes assign ctx.strokeStyle
                   !.strokeStyle = IF stamped # <<>> THEN drawingState.color ELSE @]
    /\ drawingState' = [drawingState EXCEPT !.isDrawing = FALSE]
    /\ UNCHANGED <<sessionVars, appVars, activeTab, currentText, textPosition,
                   editFilters, textAnnotations, imageRef, layoutMetrics,
                   containerRect, pendingLoads, frames, edits, leftWith, drawingData, imagePayloads, serverVars>>

onMouseUp == \E p \in Points : stopDrawing(p)
onMouseLeave == \E p \in Points : stopDrawing(p)

setCurrentText ==
    \E t \in Texts :
        /\ isEditModalOpen
        /\ activeTab = "text"
        /\ textPosition.set
        /\ t # currentText
        /\ currentText' = t
        /\ UNCHANGED <<sessionVars, appVars, activeTab, drawingState, textPosition,
                       editorVars, serverVars>>

\* a text used as typed
trimOmitted(t) == t

\* String.prototype.trim on the texts the user can type
trim(t) == IF t = " " THEN "" ELSE t

\* TextMark without the recorded position
TextMarkUnplaced(a) ==
    [kind |-> "text", text |-> a.text, x |-> 0, y |-> 0, color |-> a.color,
     size |-> a.size]

\* ctx.fillStyle = a.color; ctx.font = a.size px Arial; ctx.fillText(a.text, a.x, a.y)
TextMark(a) ==
    [kind |-> "text", text |-> a.text, x |-> a.x, y |-> a.y, color |-> a.color,
     size |-> a.size]

\* Date.now().toString(): later than the id of every annotation in the list
NewTextId ==
    1 + Cardinality({textAnnotations[j].id : j \in 1 .. Len(textAnnotations)})

\* "Añadir"
addTextAnnotation ==
    /\ isEditModalOpen
    /\ activeTab = "text"
    /\ trim(currentText) # ""
    /\ textPosition.set
    /\ Len(textAnnotations) < MaxMarks
    /\ LET newAnnotation ==
               [id |-> NewTextId, text |-> currentText, x |-> textPosition.x,
                y |-> textPosition.y, color |-> drawingState.color,
                size |-> drawingState.size * 3]
       IN  /\ textAnnotations' = Append(textAnnotations, newAnnotation)
           /\ canvas' = IF canvas.mounted
                        THEN [canvas EXCEPT !.marks = Append(@, TextMark(newAnnotation))]
                        ELSE canvas
    /\ Len(canvas'.marks) <= MaxMarks
    /\ currentText' = ""
    /\ textPosition' = NoPosition
    /\ UNCHANGED <<sessionVars, appVars, activeTab, drawingState, editFilters,
                   imageRef, layoutMetrics, containerRect, pendingLoads, frames, edits, leftWith, drawingData, imagePayloads, serverVars>>

\* "Cancelar"
cancelText ==
    /\ isEditModalOpen
    /\ activeTab = "text"
    /\ textPosition.set
    /\ textPosition' = NoPosition
    /\ currentText' = ""
    /\ UNCHANGED <<sessionVars, appVars, activeTab, drawingState, editorVars, serverVars>>

\* "Limpiar Todo"
clearCanvas ==
    /\ isEditModalOpen
    /\ activeTab = "draw"
    /\ canvas' = clearRect(canvas)
    /\ textAnnotations' = <<>>
    /\ UNCHANGED <<sessionVars, appVars, drawVars, editFilters, imageRef,
                   layoutMetrics, containerRect, pendingLoads, frames, edits, leftWith, drawingData, imagePayloads, serverVars>>

RECURSIVE TextMarks(_)
TextMarks(annotations) ==
    IF annotations = <<>> THEN <<>>
    ELSE <<TextMark(Head(annotations))>> \o TextMarks(Tail(annotations))

\* The delete button of an annotation: setTextAnnotations(filter), then
\* clearCanvas() (which calls setTextAnnotations([])), then the redraw of
\* the remaining annotations of this render's list.
deleteAnnotation(j) ==
    /\ isEditModalOpen
    /\ activeTab = "text"
    /\ LET remaining ==
               SelectSeq(textAnnotations, LAMBDA a : a.id # textAnnotations[j].id)
       IN  canvas' = IF canvas.mounted
                     THEN [canvas EXCEPT !.marks = TextMarks(remaining)]
                     ELSE canvas
    /\ textAnnotations' = <<>>
    /\ UNCHANGED <<sessionVars, appVars, drawVars, editFilters, imageRef,
                   layoutMetrics, containerRect, pendingLoads, frames, edits, leftWith,
                   drawingData, imagePayloads, serverVars>>

deleteTextAnnotation == \E j \in 1 .. Len(textAnnotations) : deleteAnnotation(j)

(***************************************************************************)
(* The image-history server (Express).  A handler runs until its next      *)
(* await; the handlers of other requests run in between.  fs.writeFile and *)
(* fs.readFile of metadata.json are taken as atomic.  A prompt and a title *)
(* are sequences of words; all requests arrive within one second, and the  *)
(* createdAt and updatedAt stamps are left out.                            *)
(***************************************************************************)
ImagePrompts == {<<"robot">>, <<"un", "robot", "en", "la", "luna", "roja">>}
Titles == {<<"uno">>, <<"dos">>}

\* generateSlug(prompt): the first five words (joined by "_")
generateSlug(imagePrompt) ==
    IF imagePrompt = <<>> THEN <<"imagen">>
    ELSE SubSeq(imagePrompt, 1, IF Len(imagePrompt) < 5 THEN Len(imagePrompt) ELSE 5)

\* generateFilename(prompt), with the extension of image/png
generateFilename(imagePrompt) ==
    [date |-> "2025-02-02T14-30-45", slug |-> generateSlug(imagePrompt),
     extension |-> "png"]

Filenames == {generateFilename(imagePrompt) : imagePrompt \in ImagePrompts}

\* requests received so far
received == Cardinality(requests) + Len(responses)

respond(r, status) ==
    /\ requests' = requests \ {r}
    /\ responses' = Append(responses, [id |-> r.id, kind |-> r.kind,
                                       filename |-> r.filename, title |-> r.title,
                                       status |-> status])

\* POST /api/save-image up to its first await; a prompt is saved once
postSaveImage ==
    \E imagePrompt \in ImagePrompts :
        /\ received < MaxRequests
        /\ \A r \in requests :
               ~(r.kind = "save" /\ r.filename = generateFilename(imagePrompt))
        /\ \A j \in 1 .. Len(responses) :
               ~(responses[j].kind = "save"
                 /\ responses[j].filename = generateFilename(imagePrompt))
        /\ requests' = requests \cup
             {[id |-> received, kind |-> "save",
               filename |-> generateFilename(imagePrompt),
               originalPrompt |-> imagePrompt, title |-> generateSlug(imagePrompt),
               pc |-> "writeImage", allMetadata |-> <<>>]}
        /\ UNCHANGED <<metadataFile, imagesDir, responses>>
        /\ UNCHANGED <<sessionVars, appVars, drawVars, editorVars>>

\* await fs.writeFile(filepath, buffer)
saveWriteImage ==
    \E r \in requests :
        /\ r.kind = "save" /\ r.pc = "writeImage"
        /\ imagesDir' = imagesDir \cup {r.filename}
        /\ requests' = (requests \ {r}) \cup {[r EXCEPT !.pc = "readMetadata"]}
        /\ UNCHANGED <<metadataFile, responses>>
        /\ UNCHANGED <<sessionVars, appVars, drawVars, editorVars>>

\* PUT /api/images/:filename with a title, up to its first await
putImageTitle ==
    \E filename \in Filenames, title \in Titles :
        /\ received < MaxRequests
        /\ requests' = requests \cup
             {[id |-> received, kind |-> "put", filename |-> filename,
               originalPrompt |-> <<>>, title |-> title, pc |-> "readMetadata", allMetadata |-> <<>>]}
        /\ UNCHANGED <<metadataFile, imagesDir, responses>>
        /\ UNCHANGED <<sessionVars, appVars, drawVars, editorVars>>

\* DELETE /api/images/:filename up to its first await
deleteImage ==
    \E filename \in Filenames :
        /\ received < MaxRequests
        /\ requests' = requests \cup
             {[id |-> received, kind |-> "delete", filename |-> filename,
               originalPrompt |-> <<>>, title |-> <<>>, pc |-> "unlink", allMetadata |-> <<>>]}
        /\ UNCHANGED <<metadataFile, imagesDir, responses>>
        /\ UNCHANGED <<sessionVars, appVars, drawVars, editorVars>>

\* await fs.unlink(filepath); a missing file is logged and ignored
deleteUnlink ==
    \E r \in requests :
        /\ r.kind = "delete" /\ r.pc = "unlink"
        /\ imagesDir' = imagesDir \ {r.filename}
        /\ requests' = (requests \ {r}) \cup {[r EXCEPT !.pc = "readMetadata"]}
        /\ UNCHANGED <<metadataFile, responses>>
        /\ UNCHANGED <<sessionVars, appVars, drawVars, editorVars>>

\* allMetadata.findIndex(m => m.filename === filename); 0 stands for -1
findIndex(allMetadata, filename) ==
    IF \E j \in 1 .. Len(allMetadata) : allMetadata[j].filename = filename
    THEN CHOOSE j \in 1 .. Len(allMetadata) :
             /\ allMetadata[j].filename = filename
             /\ \A k \in 1 .. j - 1 : allMetadata[k].filename # filename
    ELSE 0

\* await fs.readFile(METADATA_FILE) has returned or failed: the handler
\* changes its copy of the array and starts writing it, or answers 404
readMetadata ==
    \E r \in requests :
        /\ r.pc = "readMetadata"
        /\ LET allMetadata == metadataFile.entries
               metadata == [filename |-> r.filename, originalPrompt |-> r.originalPrompt,
                            title |-> r.title, mimeType |-> "image/png"]
               imageIndex == findIndex(allMetadata, r.filename)
               write(changed) ==
                   /\ requests' = (requests \ {r})
                                  \cup {[r EXCEPT !.pc = "writeMetadata",
                                                  !.allMetadata = changed]}
                   /\ UNCHANGED responses
           IN  IF r.kind = "save"
               THEN \* allMetadata.unshift(metadata)
                    write(<<metadata>> \o allMetadata)
               ELSE IF r.kind = "put"
               THEN IF ~metadataFile.exists \/ imageIndex = 0
                    THEN respond(r, 404)
                    ELSE write([allMetadata EXCEPT ![imageIndex].title = r.title])
               ELSE write(SelectSeq(allMetadata, LAMBDA m : m.filename # r.filename))
        /\ UNCHANGED <<metadataFile, imagesDir>>
        /\ UNCHANGED <<sessionVars, appVars, drawVars, editorVars>>

\* await fs.writeFile(METADATA_FILE, JSON.stringify(allMetadata)), res.json
writeMetadata ==
    \E r \in requests :
        /\ r.pc = "writeMetadata"
        /\ metadataFile' = [exists |-> TRUE, entries |-> r.allMetadata]
        /\ respond(r, 200)
        /\ UNCHANGED imagesDir
        /\ UNCHANGED <<sessionVars, appVars, drawVars, editorVars>>

(***************************************************************************)
(* The program.                                                            *)
(***************************************************************************)
Next ==
    \/ handleFileChange
    \/ handlePaste
    \/ setPrompt
    \/ onloadend
    \/ RemoveImageClick
    \/ openEditModal
    \/ handleSend
    \/ handleSendResume
    \/ runQueryReturns
    \/ SelectClick
    \/ onClose
    \/ handleUpdate
    \/ ToggleInverted
    \/ ToggleSepia
    \/ ToggleGrayscale
    \/ Rotate
    \/ SetBlur
    \/ SetBrightness
    \/ SetContrast
    \/ resetFilters
    \/ setActiveTab
    \/ onload
    \/ animationFrame
    \/ handleResize
    \/ ToolClick
    \/ ColorClick
    \/ onMouseDown
    \/ onMouseMove
    \/ onMouseUp
    \/ onMouseLeave
    \/ setCurrentText
    \/ addTextAnnotation
    \/ cancelText
    \/ clearCanvas
    \/ deleteTextAnnotation
    \/ postSaveImage
    \/ saveWriteImage
    \/ putImageTitle
    \/ deleteImage
    \/ deleteUnlink
    \/ readMetadata
    \/ writeMetadata

Spec == Init /\ [][Next]_vars

(***************************************************************************)
(* SessionSpec.  The attachment session: attaching, removing, selecting    *)
(* and sending.  The user acts when the image decode, the animation frames *)
(* and the payload preparation started by the previous action have run     *)
(* (they take milliseconds); file reads and the query complete at any      *)
(* time.  Filters are not edited and the canvas is not drawn on.           *)
(***************************************************************************)
Quiet == frames = <<>> /\ pendingLoads = {} /\ pendingSends = {}

NextSession ==
    \/ Quiet /\ handleFileChange
    \/ Quiet /\ handlePaste
    \/ Quiet /\ setPrompt
    \/ Quiet /\ RemoveImageClick
    \/ Quiet /\ openEditModal
    \/ Quiet /\ handleSend
    \/ Quiet /\ SelectClick
    \/ Quiet /\ onClose
    \/ onloadend
    \/ handleSendResume
    \/ runQueryReturns
    \/ onload
    \/ animationFrame

InitSession == Init /\ containerRect = [width |-> 800, height |-> 600]

SessionSpec == InitSession /\ [][NextSession]_vars

Min(a, b) == IF a <= b THEN a ELSE b

\* C1: whenever the session holds entries, the active index names one of
\* them: 0 <= selectedImageIndex < number of entries.
C1_ActiveIndexInRange ==
    Len(imagePreviews) > 0 => InRange(imagePreviews, selectedImageIndex)

\* C2: removing the active entry while entries remain leaves the active
\* index at min(index, number of remaining entries - 1).
C2_RemoveClampsActiveIndex ==
    [][\A index \in 0 .. MaxImages :
          (removeImage(index) /\ index = selectedImageIndex /\ Len(imagePreviews') > 0)
          => selectedImageIndex' = Min(index, Len(imagePreviews') - 1)]_vars

\* C5: an entry appended for an attached file holds the default value of
\* each of the seven filter parameters.
C5_NewEntryHasDefaults ==
    [][onloadend =>
          LET entry == imageFilters'[Len(imageFilters')]
          IN  \A k \in FilterKeys : Has(entry, k) /\ entry[k] = defaultFilters[k]]_vars

(***************************************************************************)
(* ApplySpec and CanvasSpec.  The editor at work on a session of two       *)
(* images: selecting, editing filters, applying and closing in the first,  *)
(* selecting, drawing and adding text in the second.  Both start where     *)
(* SessionSpec arrives when two files have been attached and read.         *)
(***************************************************************************)
TwoImagesRead ==
    /\ prompt = ""
    /\ imageFiles = <<"wide", "tall">>
    /\ imagePreviews = <<"wide", "tall">>
    /\ imageFilters = <<NewEntryFilters(1), NewEntryFilters(2)>>
    /\ isEditModalOpen = FALSE
    /\ selectedImageIndex = 0
    /\ pendingReads = [f \in Files |-> 0]
    /\ pendingSends = {}
    /\ sends = 0
    /\ attached = 2
    /\ isLoading = FALSE
    /\ messages = <<>>
    /\ queries = 0
    \* the effect on [selectedIndex, initialFilters] has stored entry 0
    /\ editFilters = NewEntryFilters(1)
    /\ activeTab = "filters"
    /\ drawingState = defaultDrawingState
    /\ textAnnotations = <<>>
    /\ currentText = ""
    /\ textPosition = NoPosition
    /\ canvas = NoCanvas
    /\ imageRef = NoImage
    /\ layoutMetrics = zeroMetrics
    /\ containerRect = [width |-> 800, height |-> 600]
    /\ pendingLoads = {}
    /\ frames = <<>>
    /\ edits = 0
    /\ leftWith = NotLeft
    /\ drawingData = Undefined
    /\ imagePayloads = <<>>
    /\ ServerStarted

InitEdit == TwoImagesRead

\* Filters are edited, applied or dropped; nothing is drawn.
NextApply ==
    \/ Quiet /\ openEditModal
    \/ Quiet /\ SelectClick
    \/ Quiet /\ onClose
    \/ Quiet /\ handleUpdate
    \/ Quiet /\ Rotate
    \/ Quiet /\ ToggleInverted
    \/ Quiet /\ SetBrightness
    \/ Quiet /\ resetFilters
    \/ onload
    \/ animationFrame

ApplySpec == InitEdit /\ [][NextApply]_vars

\* The canvas is drawn on with the brush and the text tool between selections;
\* the pointer is pressed and moved at one place.
Corner == [x |-> 10, y |-> 10]
PressAtCorner == startDrawing(Corner)
MoveToCorner == draw(Corner)

NextCanvas ==
    \/ Quiet /\ openEditModal
    \/ Quiet /\ SelectClick
    \/ Quiet /\ Rotate
    \/ Quiet /\ setActiveTab
    \/ Quiet /\ SelectTextTool
    \/ Quiet /\ PressAtCorner
    \/ Quiet /\ MoveToCorner
    \/ Quiet /\ onMouseUp
    \/ Quiet /\ setCurrentText
    \/ Quiet /\ addTextAnnotation
    \/ onload
    \/ animationFrame

CanvasSpec == InitEdit /\ [][NextCanvas]_vars

C4_ApplyReplacesEntry ==
    [][(handleUpdate /\ InRange(imageFilters, selectedImageIndex))
       => /\ Len(imageFilters') = Len(imageFilters)
          /\ At(imageFilters', selectedImageIndex) = editFilters
          /\ \A j \in Indices(imageFilters) :
                j # selectedImageIndex => At(imageFilters', j) = At(imageFilters, j)]_vars

\* C4: edited parameters have been applied to the second image; the first
\* entry still holds what it was created with.
C4_AppliedToSecond ==
    /\ ~isEditModalOpen
    /\ Len(imageFilters) = 2
    /\ selectedImageIndex = 1
    /\ At(imageFilters, 1).rotation = 90
    /\ At(imageFilters, 1) = editFilters
    /\ At(imageFilters, 0) = NewEntryFilters(1)

(***************************************************************************)
(* FilterSpec.  The filter tab of the open editor, started from every      *)
(* parameter object the edit buttons and sliders can have produced: the    *)
(* defaultFilters constant, objects with all seven properties, and objects *)
(* spread from a new entry, which lack some of the last four.              *)
(***************************************************************************)
FullFilterInputs ==
    {[rotation |-> r, inverted |-> i, sepia |-> s, grayscale |-> g, blur |-> b,
      brightness |-> br, contrast |-> c, ref |-> 3] :
        r \in Rotations, i \in BOOLEAN, s \in BOOLEAN, g \in BOOLEAN,
        b \in BlurValues, br \in BrightnessValues, c \in ContrastValues}

FilterInputs ==
    {defaultFilters} \cup
    {[k \in {"rotation", "inverted", "sepia", "ref"} \cup D |-> f[k]] :
        f \in FullFilterInputs,
        D \in SUBSET {"grayscale", "blur", "brightness", "contrast"}}

InitFilter ==
    /\ prompt = ""
    /\ imageFiles = <<"wide", "tall">>
    /\ imagePreviews = <<"wide", "tall">>
    /\ imageFilters = <<NewEntryFilters(1), NewEntryFilters(2)>>
    /\ isEditModalOpen = TRUE
    /\ selectedImageIndex = 0
    /\ pendingReads = [f \in Files |-> 0]
    /\ pendingSends = {}
    /\ sends = 0
    /\ attached = 2
    /\ isLoading = FALSE
    /\ messages = <<>>
    /\ queries = 0
    /\ editFilters \in FilterInputs
    /\ activeTab = "filters"
    /\ drawingState = defaultDrawingState
    /\ textAnnotations = <<>>
    /\ currentText = ""
    /\ textPosition = NoPosition
    /\ canvas = FreshCanvas
    /\ imageRef = NoImage
    /\ layoutMetrics = zeroMetrics
    /\ containerRect = [width |-> 800, height |-> 600]
    /\ pendingLoads = {}
    /\ frames = <<>>
    /\ edits = 0
    /\ leftWith = NotLeft
    /\ drawingData = Undefined
    /\ imagePayloads = <<>>
    /\ ServerStarted

NextFilter ==
    \/ Quiet /\ ToggleInverted
    \/ Quiet /\ ToggleSepia
    \/ Quiet /\ ToggleGrayscale
    \/ Quiet /\ Rotate
    \/ Quiet /\ SetBlur
    \/ Quiet /\ SetBrightness
    \/ Quiet /\ SetContrast
    \/ Quiet /\ resetFilters
    \/ animationFrame

FilterSpec == InitFilter /\ [][NextFilter]_vars

(***************************************************************************)
(* The filter chain (C6, C7).                                              *)
(***************************************************************************)
\* All six effect parameters are present and hold their default.
AtDefaults(f) ==
    \A k \in FilterKeys \ {"rotation"} : Has(f, k) /\ f[k] = defaultFilters[k]

\* C6: with inverted, sepia and grayscale false, blur 0, brightness 100 and
\* contrast 100, whatever the rotation, applyFilters builds no descriptor and
\* returns the empty string.
C6_DefaultsGiveEmptyChain ==
    AtDefaults(editFilters)
    => filterList(editFilters) = <<>> /\ applyFilters(editFilters) = ""

\* C6: an edit has left the parameters at their defaults with the image rotated.
C6_DefaultsRotated ==
    /\ AtDefaults(editFilters)
    /\ editFilters.rotation = 90
    /\ edits > 0
    /\ frames = <<>>

ChainOrder == <<"inverted", "sepia", "grayscale", "blur", "brightness", "contrast">>

\* The parameter differs from its default: a flag that is set, blur > 0,
\* brightness # 100, contrast # 100 (a missing number is not > 0 and is not 100).
DiffersFromDefault(f, k) ==
    CASE k \in {"inverted", "sepia", "grayscale"} -> Has(f, k) /\ f[k]
      [] k = "blur" -> Has(f, k) /\ f[k] > 0
      [] k \in {"brightness", "contrast"} -> ~Has(f, k) \/ f[k] # 100

Descriptor(f, k) ==
    CASE k = "inverted" -> "invert(100%)"
      [] k = "sepia" -> "sepia(100%)"
      [] k = "grayscale" -> "grayscale(100%)"
      [] k = "blur" -> "blur(" \o NumText(f, k) \o "px)"
      [] k = "brightness" -> "brightness(" \o NumText(f, k) \o "%)"
      [] k = "contrast" -> "contrast(" \o NumText(f, k) \o "%)"

ExpectedChain(f) ==
    LET kept == SelectSeq(ChainOrder, LAMBDA k : DiffersFromDefault(f, k))
    IN  [j \in 1 .. Len(kept) |-> Descriptor(f, kept[j])]

\* C7: the descriptors applyFilters builds are those of invert, sepia,
\* grayscale, blur, brightness, contrast, in this order, for exactly the
\* parameters that differ from their default; the string it returns is the
\* same for every rotation.
C7_ChainIsOrderedSubsequence ==
    /\ filterList(editFilters) = ExpectedChain(editFilters)
    /\ \A r \in Rotations :
         applyFilters([editFilters EXCEPT !.rotation = r]) = applyFilters(editFilters)

\* C7: an edit has produced parameters with sepia, grayscale and a blur on a
\* rotated image, brightness and contrast at their defaults.
C7_SeveralEffects ==
    /\ edits > 0
    /\ Truthy(editFilters, "sepia")
    /\ Truthy(editFilters, "grayscale")
    /\ ~Truthy(editFilters, "inverted")
    /\ Has(editFilters, "blur") /\ editFilters.blur = 5
    /\ Has(editFilters, "brightness") /\ editFilters.brightness = 100
    /\ Has(editFilters, "contrast") /\ editFilters.contrast = 100
    /\ editFilters.rotation = 90
    /\ applyFilters(editFilters) = "sepia(100%) grayscale(100%) blur(5px)"

(***************************************************************************)
(* LayoutSpec.  The layout computation of updateCanvasSize.  The editor    *)
(* is open on the second of two images, just selected, whose decode is     *)
(* under way; the callback that will follow the decode belongs to the      *)
(* render in which the first image was shown, rotated or not.  The image   *)
(* has any of the shapes, the container any of the sizes.                  *)
(***************************************************************************)
InitLayout ==
    \E file \in LayoutFiles, rotation \in Rotations :
        /\ prompt = ""
        /\ imageFiles = <<"wide", file>>
        /\ imagePreviews = <<"wide", file>>
        /\ imageFilters = <<NewEntryFilters(1), NewEntryFilters(2)>>
        /\ isEditModalOpen = TRUE
        /\ selectedImageIndex = 1
        /\ pendingReads = [f \in Files |-> 0]
        /\ pendingSends = {}
        /\ sends = 0
        /\ attached = 2
        /\ isLoading = FALSE
        /\ messages = <<>>
        /\ queries = 0
        /\ editFilters = NewEntryFilters(2)
        /\ activeTab = "filters"
        /\ drawingState = defaultDrawingState
        /\ textAnnotations = <<>>
        /\ currentText = ""
        /\ textPosition = NoPosition
        /\ canvas = FreshCanvas
        /\ imageRef = NoImage
        /\ layoutMetrics = zeroMetrics
        /\ containerRect \in ContainerRects
        /\ pendingLoads = {[file |-> file, rotation |-> rotation]}
        /\ frames = <<>>
        /\ edits = 0
        /\ leftWith =
             [seen |-> TRUE, index |-> 0, marks |-> <<>>, texts |-> <<>>,
              filters |-> IF rotation = 0 THEN NewEntryFilters(1)
                          ELSE [NewEntryFilters(IF rotation = 180 THEN 4 ELSE 3)
                                   EXCEPT !.rotation = rotation]]
        /\ drawingData = Undefined
        /\ imagePayloads = <<>>
        /\ ServerStarted

NextLayout ==
    \/ onload
    \/ animationFrame
    \/ Quiet /\ Rotate
    \/ Quiet /\ handleResize

LayoutSpec == InitLayout /\ [][NextLayout]_vars

(***************************************************************************)
(* The layout metrics (C8, C9, C10).  Widths, heights and offsets are      *)
(* exact fractions; the program's doubles agree with them up to rounding.  *)
(***************************************************************************)
\* This step runs updateCanvasSize past its early return, and the closure
\* that runs sees `rotation`.
LayoutComputedWith(rotation) ==
    /\ imageRef # NoImage
    /\ isEditModalOpen
    /\ canvas.mounted
    /\ \/ animationFrame /\ rotation = Head(frames)
       \/ handleResize /\ rotation = defaultFilters.rotation

\* C8: every layout updateCanvasSize computes lies inside the container's
\* bounding box: offsetX >= 0, offsetY >= 0, offsetX + displayWidth <= width
\* and offsetY + displayHeight <= height of the box; it even keeps the 16
\* pixels of padding free on each side.
C8_LayoutWithinContainer ==
    [][\A rotation \in Rotations :
          LayoutComputedWith(rotation)
          => LET m == layoutMetrics'
                 rect == containerRect'
             IN  /\ RLe(RInt(0), m.offsetX)
                 /\ RLe(RInt(0), m.offsetY)
                 /\ RLe(RAdd(m.offsetX, m.displayWidth), RInt(rect.width))
                 /\ RLe(RAdd(m.offsetY, m.displayHeight), RInt(rect.height))
                 /\ RLe(RInt(16), m.offsetX)
                 /\ RLe(RInt(16), m.offsetY)
                 /\ RLe(RAdd(m.offsetX, m.displayWidth), RInt(rect.width - 16))
                 /\ RLe(RAdd(m.offsetY, m.displayHeight), RInt(rect.height - 16))]_vars

\* C8: the wide image has been laid out in a container 8 pixels wider than
\* its padding: 8 x 4 pixels, 16 from the left and 298 from the top.
C8_NarrowContainer ==
    /\ imageRef = "wide"
    /\ containerRect = [width |-> 40, height |-> 600]
    /\ frames = <<>>
    /\ REq(layoutMetrics.displayWidth, RInt(8))
    /\ REq(layoutMetrics.displayHeight, RInt(4))
    /\ REq(layoutMetrics.offsetX, RInt(16))
    /\ REq(layoutMetrics.offsetY, RInt(298))

RTimes(a, k) == Rat(a.n * k, a.d)

\* C9: every layout updateCanvasSize computes keeps the aspect ratio of the
\* source as the computation's rotation presents it: for 0 and 180,
\* displayWidth * sourceHeight = displayHeight * sourceWidth; for 90 and 270,
\* displayWidth * sourceWidth = displayHeight * sourceHeight.
C9_AspectRatioPreserved ==
    [][\A rotation \in Rotations :
          LayoutComputedWith(rotation)
          => LET m == layoutMetrics'
                 w == ImgWidth(imageRef)
                 h == ImgHeight(imageRef)
             IN  IF rotation \in {0, 180}
                 THEN REq(RTimes(m.displayWidth, h), RTimes(m.displayHeight, w))
                 ELSE REq(RTimes(m.displayWidth, w), RTimes(m.displayHeight, h))]_vars

\* C9: the tall image (200 x 400), turned by 90 degrees with the rotate
\* button, has been laid out 768 x 384 in the 800 x 600 container.
C9_TallImageRotated ==
    /\ imageRef = "tall"
    /\ containerRect = [width |-> 800, height |-> 600]
    /\ editFilters.rotation = 90
    /\ edits > 0
    /\ frames = <<>>
    /\ REq(layoutMetrics.displayWidth, RInt(768))
    /\ REq(layoutMetrics.displayHeight, RInt(384))

\* The layout of C10: the image, its sides exchanged for 90 and 270, fitted
\* into a box boxWidth x boxHeight and centred in the container `rect`.
FittedAndCentred(m, file, rotation, boxWidth, boxHeight, rect) ==
    LET turned == rotation \in {90, 270}
        effW == IF turned THEN ImgHeight(file) ELSE ImgWidth(file)
        effH == IF turned THEN ImgWidth(file) ELSE ImgHeight(file)
        imgAspect == Rat(effW, effH)
        \* imgAspect > containerAspect; never so for a box of height 0
        widthConstrained ==
            boxHeight > 0 /\ ~RLe(imgAspect, Rat(boxWidth, boxHeight))
    IN  /\ IF widthConstrained
           THEN /\ REq(m.displayWidth, RInt(boxWidth))
                /\ REq(RTimes(m.displayHeight, effW), RInt(boxWidth * effH))
           ELSE /\ REq(m.displayHeight, RInt(boxHeight))
                /\ REq(RTimes(m.displayWidth, effH), RInt(boxHeight * effW))
        /\ REq(RAdd(m.offsetX, m.offsetX), RSub(RInt(rect.width), m.displayWidth))
        /\ REq(RAdd(m.offsetY, m.offsetY), RSub(RInt(rect.height), m.displayHeight))

Scenario == [width |-> 800, height |-> 600]

IsLayout(m, displayWidth, displayHeight, offsetX, offsetY) ==
    /\ REq(m.displayWidth, RInt(displayWidth))
    /\ REq(m.displayHeight, RInt(displayHeight))
    /\ REq(m.offsetX, RInt(offsetX))
    /\ REq(m.offsetY, RInt(offsetY))

\* C10, as stated: the image is fitted to the full container and centred in
\* it; the 400 x 200 image in the 800 x 600 container is laid out
\* (800, 400, 0, 100) at rotation 0 and (300, 600, 250, 0) at rotation 90.
C10_FitsFullContainer ==
    [][\A rotation \in Rotations :
          LayoutComputedWith(rotation)
          => /\ FittedAndCentred(layoutMetrics', imageRef, rotation,
                                 containerRect'.width, containerRect'.height,
                                 containerRect')
             /\ (imageRef = "wide" /\ containerRect' = Scenario /\ rotation = 0)
                => IsLayout(layoutMetrics', 800, 400, 0, 100)
             /\ (imageRef = "wide" /\ containerRect' = Scenario /\ rotation = 90)
                => IsLayout(layoutMetrics', 300, 600, 250, 0)]_vars

\* C10, amended: the image is fitted to the container less 32 pixels of
\* padding in each direction and centred in the full container; the
\* 400 x 200 image in the 800 x 600 container is laid out (768, 384, 16, 108)
\* at rotation 0 and (284, 568, 258, 16) at rotation 90.
C10_FitsPaddedContainer ==
    [][\A rotation \in Rotations :
          LayoutComputedWith(rotation)
          => /\ FittedAndCentred(layoutMetrics', imageRef, rotation,
                                 containerRect'.width - 32, containerRect'.height - 32,
                                 containerRect')
             /\ (imageRef = "wide" /\ containerRect' = Scenario /\ rotation = 0)
                => IsLayout(layoutMetrics', 768, 384, 16, 108)
             /\ (imageRef = "wide" /\ containerRect' = Scenario /\ rotation = 90)
                => IsLayout(layoutMetrics', 284, 568, 258, 16)]_vars

\* C10: the 400 x 200 image, turned by 90 degrees with the rotate button, has
\* been laid out in the 800 x 600 container.
C10_ScenarioRotated ==
    /\ imageRef = "wide"
    /\ containerRect = Scenario
    /\ editFilters.rotation = 90
    /\ edits > 0
    /\ frames = <<>>
    /\ IsLayout(layoutMetrics, 284, 568, 258, 16)

(***************************************************************************)
(* ExportSpec.  One editing session on the annotation surface that ends in *)
(* "Aplicar Cambios".  It starts where ApplySpec arrives when the editor   *)
(* has been opened on two attached images; the user selects the other      *)
(* image, picks a colour, draws with the brush, places text, and applies.  *)
(***************************************************************************)
EditorOpened ==
    /\ prompt = ""
    /\ imageFiles = <<"wide", "tall">>
    /\ imagePreviews = <<"wide", "tall">>
    /\ imageFilters = <<NewEntryFilters(1), NewEntryFilters(2)>>
    /\ isEditModalOpen = TRUE
    /\ selectedImageIndex = 0
    /\ pendingReads = [f \in Files |-> 0]
    /\ pendingSends = {}
    /\ sends = 0
    /\ attached = 2
    /\ isLoading = FALSE
    /\ messages = <<>>
    /\ queries = 0
    /\ editFilters = NewEntryFilters(1)
    /\ activeTab = "filters"
    /\ drawingState = defaultDrawingState
    /\ textAnnotations = <<>>
    /\ currentText = ""
    /\ textPosition = NoPosition
    \* the <canvas> has been created; no image has been decoded
    /\ canvas = FreshCanvas
    /\ imageRef = NoImage
    /\ layoutMetrics = zeroMetrics
    /\ containerRect = [width |-> 800, height |-> 600]
    /\ pendingLoads = {}
    /\ frames = <<>>
    /\ edits = 0
    /\ leftWith = NotLeft
    /\ drawingData = Undefined
    /\ imagePayloads = <<>>
    /\ ServerStarted

InitExport == EditorOpened

Far == [x |-> 110, y |-> 60]
MoveToFar == draw(Far)
ReleaseAtFar == stopDrawing(Far)
SelectBrush == setTool("brush")
OpenTab(tab) == setActiveTab /\ activeTab' = tab
TypeText == setCurrentText /\ currentText' # ""
\* A thumbnail is clicked while the surface is still empty.
SelectBeforeDrawing ==
    SelectClick /\ canvas.marks = <<>> /\ textAnnotations = <<>> /\ ~drawingState.isDrawing

NextExport ==
    \/ Quiet /\ SelectBeforeDrawing
    \/ Quiet /\ OpenTab("draw")
    \/ Quiet /\ OpenTab("text")
    \/ Quiet /\ ColorClick
    \/ Quiet /\ SelectBrush
    \/ Quiet /\ SelectTextTool
    \/ Quiet /\ PressAtCorner
    \/ Quiet /\ MoveToFar
    \/ Quiet /\ ReleaseAtFar
    \/ Quiet /\ TypeText
    \/ Quiet /\ addTextAnnotation
    \/ Quiet /\ handleUpdate
    \/ onload
    \/ animationFrame

ExportSpec == InitExport /\ [][NextExport]_vars

(***************************************************************************)
(* Export (C11).                                                           *)
(***************************************************************************)
\* Some pixel of the annotation canvas is not transparent (alpha > 0).
NonTransparent(cv) ==
    /\ cv.mounted
    /\ \E s \in DOMAIN getImageData(cv) : getImageData(cv)[s][4] > 0

\* The annotation surface has committed content.
HasContent == Len(textAnnotations) > 0 \/ NonTransparent(canvas)

\* C11: handleUpdate passes annotation data to onUpdate if and only if the
\* TextAnnotation list is non-empty or some pixel of the raster has
\* alpha > 0, whatever the colour of that pixel; otherwise it passes the
\* filter parameters alone.
C11_ExportIffContent ==
    [][handleUpdate
       => /\ (drawingData' # Undefined) <=> HasContent
          /\ SameValue(At(imageFilters', selectedImageIndex), editFilters)]_vars

\* The raster handleUpdate has to export for the stored LayoutMetrics: the
\* sub-rectangle (offsetX, offsetY, displayWidth, displayHeight) of the
\* surface when both dimensions are positive, the whole surface otherwise.
ExpectedExport ==
    IF RLt(RInt(0), layoutMetrics.displayWidth)
       /\ RLt(RInt(0), layoutMetrics.displayHeight)
    THEN toDataURL(canvas.marks, layoutMetrics.offsetX, layoutMetrics.offsetY,
                   layoutMetrics.displayWidth, layoutMetrics.displayHeight)
    ELSE toDataURL(canvas.marks, RInt(0), RInt(0), RInt(canvas.width),
                   RInt(canvas.height))

\* C14: when the annotation surface has content, the annotation raster
\* handleUpdate exports is the sub-rectangle of the surface given by the
\* stored LayoutMetrics if both display dimensions are positive, and the
\* whole surface otherwise; it is never absent or empty.
C14_ExportIsCropOrFullSurface ==
    [][(handleUpdate /\ HasContent)
       => /\ drawingData' # Undefined
          /\ drawingData' = ExpectedExport
          /\ RLt(RInt(0), drawingData'.width)
          /\ RLt(RInt(0), drawingData'.height)]_vars

(***************************************************************************)
(* SendSpec.  The editor is open on two attached images; the user edits    *)
(* filters, draws with the brush, applies or closes, and sends.            *)
(***************************************************************************)
NextSend ==
    \/ Quiet /\ SelectBeforeDrawing
    \/ Quiet /\ Rotate
    \/ Quiet /\ ToggleInverted
    \/ Quiet /\ ToggleSepia
    \/ Quiet /\ ToggleGrayscale
    \/ Quiet /\ SetBlur
    \/ Quiet /\ SetBrightness
    \/ Quiet /\ SetContrast
    \/ Quiet /\ OpenTab("draw")
    \/ Quiet /\ PressAtCorner
    \/ Quiet /\ MoveToFar
    \/ Quiet /\ ReleaseAtFar
    \/ Quiet /\ onClose
    \/ Quiet /\ handleUpdate
    \/ Quiet /\ handleSend
    \/ handleSendResume
    \/ runQueryReturns
    \/ onload
    \/ animationFrame

SendSpec == InitExport /\ [][NextSend]_vars

(***************************************************************************)
(* The outgoing request (C12, C13).                                        *)
(***************************************************************************)
\* C12: when edits whose export carried annotation data were applied to the
\* active image and the message is then sent, the raster sent for that
\* image has the annotation data drawn into it, over the base image.
C12_SentRasterHasAnnotations ==
    [][(handleSendResume /\ drawingData # Undefined
        /\ InRange(imagePreviews, selectedImageIndex))
       => LET drawn == At(imagePayloads', selectedImageIndex).drawn
          IN  /\ Len(drawn) >= 2
              /\ drawn[1] = At(imagePreviews, selectedImageIndex)
              /\ \E j \in 2 .. Len(drawn) : drawn[j] = drawingData]_vars

\* The effect of parameter k is asked for: the parameter is present and is
\* not at its default.
NonDefault(f, k) == Has(f, k) /\ f[k] # defaultFilters[k]

\* C13: for every attached image, the raster sent is the source rotated by
\* its entry's rotation, with each of invert, sepia, grayscale, blur,
\* brightness and contrast that is non-default in the entry applied to the
\* sent pixels.
C13_SentRasterHasAllEffects ==
    [][handleSendResume
       => \A s \in pendingSends \ pendingSends' :
            \A j \in 1 .. Len(s.previews) :
                LET sent == imagePayloads'[j]
                    applied == {sent.effects[e] : e \in 1 .. Len(sent.effects)}
                IN  /\ sent.drawn[1] = s.previews[j]
                    /\ sent.rotation = s.filters[j].rotation
                    /\ \A e \in 1 .. Len(ChainOrder) :
                           NonDefault(s.filters[j], ChainOrder[e])
                           => ChainOrder[e] \in applied]_vars

(***************************************************************************)
(* DrawSpec.  The editor is open on the first image; the user picks any of *)
(* the six tools and presses, moves, releases and leaves the pointer at    *)
(* two positions of the annotation surface.                                *)
(***************************************************************************)
\* The button goes down while it is up.
PressInIdle == onMouseDown /\ ~drawingState.isDrawing

\* A tool button is reached with the pointer off the canvas.
ToolInIdle == ToolClick /\ ~drawingState.isDrawing

NextDraw ==
    \/ Quiet /\ OpenTab("draw")
    \/ Quiet /\ ToolInIdle
    \/ Quiet /\ PressInIdle
    \/ Quiet /\ onMouseMove
    \/ Quiet /\ onMouseUp
    \/ Quiet /\ onMouseLeave
    \/ animationFrame

DrawSpec == InitExport /\ [][NextDraw]_vars

(***************************************************************************)
(* Pointer events on the annotation surface (C18, C19, C20).               *)
(***************************************************************************)
ShapeTools == {"rectangle", "circle", "arrow"}

\* C18: a pointer-leave while drawing returns the surface to Idle and
\* leaves the raster as it was: with rectangle, circle or arrow no shape is
\* stamped, with brush or eraser the committed segments remain.
C18_LeaveStampsNothing ==
    [][(onMouseLeave /\ drawingState.isDrawing)
       => /\ ~drawingState'.isDrawing
          /\ canvas'.marks = canvas.marks]_vars

\* C19: a pointer-down in Idle enters Drawing with the down-position as
\* anchor exactly when the tool is not the text tool; with the text tool it
\* records the pending text position, stays in Idle and leaves the raster
\* unchanged.  While not Drawing, a pointer-move or pointer-up changes
\* nothing.
C19_PointerDownByTool ==
    /\ [][\A p \in Points :
            (startDrawing(p) /\ ~drawingState.isDrawing)
            => IF drawingState.tool \in Tools \ {"text"}
               THEN /\ drawingState' = [drawingState EXCEPT !.isDrawing = TRUE,
                                            !.startX = p.x, !.startY = p.y]
                    /\ textPosition' = textPosition
                    /\ canvas'.marks = canvas.marks
               ELSE /\ drawingState' = drawingState
                    /\ textPosition' = [set |-> TRUE, x |-> p.x, y |-> p.y]
                    /\ canvas' = canvas]_vars
    /\ [](~drawingState.isDrawing => ~ENABLED (onMouseMove \/ onMouseUp))

\* C19 witness: a press with the text tool has recorded a text position and
\* a later press with the rectangle tool has entered Drawing at (110, 60).
C19_TextThenRectanglePress ==
    /\ textPosition = [set |-> TRUE, x |-> 10, y |-> 10]
    /\ drawingState.tool = "rectangle"
    /\ drawingState.isDrawing
    /\ drawingState.startX = 110
    /\ drawingState.startY = 60
    /\ canvas.marks = <<>>

\* C20: with rectangle, circle or arrow, a pointer-move during Drawing does
\* not change the raster and neither does the pointer-down; the pointer-up
\* stamps exactly one shape, fixed by the anchor recorded at pointer-down
\* and the release point: the rectangle has its origin at the anchor and
\* width and height release - anchor, the circle has its centre at the
\* anchor and passes through the release point, the arrow runs from the
\* anchor to the release point.
C20_ShapeStampedAtRelease ==
    /\ []((drawingState.isDrawing /\ drawingState.tool \in ShapeTools)
          => ~ENABLED onMouseMove)
    /\ [][\A p \in Points :
            /\ (startDrawing(p) /\ drawingState.tool \in ShapeTools)
               => canvas'.marks = canvas.marks
            /\ (stopDrawing(p) /\ drawingState.tool \in ShapeTools)
               => LET sx == drawingState.startX
                      sy == drawingState.startY
                      shape == canvas'.marks[Len(canvas'.marks)]
                  IN  /\ Len(canvas'.marks) = Len(canvas.marks) + 1
                      /\ SubSeq(canvas'.marks, 1, Len(canvas.marks)) = canvas.marks
                      /\ shape.kind = drawingState.tool
                      /\ shape.x = sx
                      /\ shape.y = sy
                      /\ drawingState.tool = "rectangle"
                         => shape.width = p.x - sx /\ shape.height = p.y - sy
                      /\ drawingState.tool = "circle"
                         => shape.radiusSquared
                              = (p.x - sx) * (p.x - sx) + (p.y - sy) * (p.y - sy)
                      /\ drawingState.tool = "arrow"
                         => shape.toX = p.x /\ shape.toY = p.y]_vars

\* C20 witness: pressed at (10, 10) and released at (110, 60) with the
\* rectangle tool, the raster holds one 100 x 50 rectangle at (10, 10).
C20_Rectangle100x50 ==
    /\ ~drawingState.isDrawing
    /\ drawingState.tool = "rectangle"
    /\ Len(canvas.marks) = 1
    /\ canvas.marks[1].kind = "rectangle"
    /\ canvas.marks[1].x = 10
    /\ canvas.marks[1].y = 10
    /\ canvas.marks[1].width = 100
    /\ canvas.marks[1].height = 50

(***************************************************************************)
(* ClearSpec.  The editor is open on the first image; the user rotates,    *)
(* draws a brush stroke or a rectangle from (10, 10) to (110, 60), places  *)
(* text, clears the surface and applies.  Nothing else empties the raster: *)
(* no image has been decoded, so updateCanvasSize returns early.           *)
(***************************************************************************)
SelectRectangle == setTool("rectangle")

NextClear ==
    \/ Quiet /\ Rotate
    \/ Quiet /\ OpenTab("draw")
    \/ Quiet /\ OpenTab("text")
    \/ Quiet /\ SelectBrush
    \/ Quiet /\ SelectRectangle
    \/ Quiet /\ SelectTextTool
    \/ Quiet /\ PressAtCorner
    \/ Quiet /\ MoveToFar
    \/ Quiet /\ ReleaseAtFar
    \/ Quiet /\ TypeText
    \/ Quiet /\ addTextAnnotation
    \/ Quiet /\ clearCanvas
    \/ Quiet /\ handleUpdate
    \/ animationFrame

ClearSpec == InitExport /\ [][NextClear]_vars

\* C15: after strokes, shapes and text placements, "Limpiar Todo" leaves a
\* surface whose export is that of a surface never annotated: the raster
\* is fully transparent, the TextAnnotation list is empty, the
\* FilterParameters are the ones held before the Clear, and applying
\* passes no annotation data and these FilterParameters.
C15_ClearedSurfaceExportsNothing ==
    /\ [][clearCanvas
          => /\ \A s \in Samples : Bitmap(canvas'.marks)[s] = Transparent
             /\ textAnnotations' = <<>>
             /\ editFilters' = editFilters
             /\ exportDrawing(canvas', textAnnotations', layoutMetrics')
                  = exportDrawing(FreshCanvas, <<>>, layoutMetrics')
             /\ exportDrawing(canvas', textAnnotations', layoutMetrics') = Undefined]_vars
    /\ [][(handleUpdate /\ canvas.marks = <<>> /\ textAnnotations = <<>>)
          => /\ drawingData' = Undefined
             /\ SameValue(At(imageFilters', selectedImageIndex), editFilters)]_vars

\* C15 witness: a brush segment has been stroked (the path of the context
\* holds it), the image has been rotated, and the raster and the list are
\* empty again on the draw tab: the surface has been cleared.
C15_ClearedAfterStroke ==
    /\ isEditModalOpen
    /\ activeTab = "draw"
    /\ Len(canvas.path) >= 2
    /\ canvas.lineCap = "round"
    /\ canvas.marks = <<>>
    /\ textAnnotations = <<>>
    /\ editFilters.rotation = 90

(***************************************************************************)
(* TextSpec.  The editor is open on the first image; the user draws with   *)
(* the brush, places text at two positions, cancels and deletes text.      *)
(***************************************************************************)
NextText ==
    \/ Quiet /\ OpenTab("draw")
    \/ Quiet /\ OpenTab("text")
    \/ Quiet /\ SelectBrush
    \/ Quiet /\ SelectTextTool
    \/ Quiet /\ PressInIdle
    \/ Quiet /\ MoveToFar
    \/ Quiet /\ ReleaseAtFar
    \/ Quiet /\ TypeText
    \/ Quiet /\ addTextAnnotation
    \/ Quiet /\ cancelText
    \/ Quiet /\ deleteTextAnnotation
    \/ animationFrame

TextSpec == InitExport /\ [][NextText]_vars

(***************************************************************************)
(* Deleting a text annotation (C16).                                       *)
(***************************************************************************)
\* C16: deleting the j-th TextAnnotation leaves a raster that was cleared
\* and then stamped with every other TextAnnotation of the list, in list
\* order, each with its text, colour and size at its recorded position;
\* nothing else stays on the raster.
C16_DeleteRestampsRemaining ==
    [][\A j \in 1 .. Len(textAnnotations) :
          deleteAnnotation(j)
          => LET remaining == RemoveAt(textAnnotations, j - 1)
                 stamped == Bitmap(canvas'.marks)
             IN  /\ Len(canvas'.marks) = Len(remaining)
                 /\ \A k \in 1 .. Len(remaining) :
                        canvas'.marks[k] =
                            [kind |-> "text", text |-> remaining[k].text,
                             x |-> remaining[k].x, y |-> remaining[k].y,
                             color |-> remaining[k].color, size |-> remaining[k].size]
                 /\ \A s \in Samples :
                        stamped[s] # Transparent
                        <=> \E k \in 1 .. Len(remaining) :
                                s = Glyph(remaining[k].x, remaining[k].y)]_vars

\* C16 witness: of two texts placed at (10, 10) and at (110, 60) one has
\* been deleted, and the raster shows glyphs at (110, 60) only.
C16_OnlySecondOnRaster ==
    /\ activeTab = "text"
    /\ textAnnotations = <<>>
    /\ Len(canvas.marks) = 1
    /\ canvas.marks[1].kind = "text"
    /\ canvas.marks[1].x = 110
    /\ canvas.marks[1].y = 60
    /\ Bitmap(canvas.marks)[Glyph(110, 60)] # Transparent
    /\ Bitmap(canvas.marks)[Glyph(10, 10)] = Transparent

(***************************************************************************)
(* Layout after the callbacks have run (C17).                              *)
(***************************************************************************)
\* C17: when the editor shows an image and no image decode and no animation
\* frame is outstanding, the stored LayoutMetrics are computeLayout of the
\* selected image's intrinsic size, the current rotation and the current
\* container size.
C17_LayoutSettles ==
    (isEditModalOpen /\ InRange(imagePreviews, selectedImageIndex)
     /\ pendingLoads = {} /\ frames = <<>>)
    => layoutMetrics = computeLayout(At(imagePreviews, selectedImageIndex),
                                     editFilters.rotation, containerRect)

(***************************************************************************)
(* Brush and eraser strokes (C21).                                         *)
(***************************************************************************)
\* C21: with brush or eraser, a pointer-move during Drawing paints exactly
\* one line segment onto the raster, from the previous point of the stroke
\* to the current point; the segments of earlier moves of the stroke are
\* not painted again.
C21_MoveCommitsOneSegment ==
    [][\A p \in Points :
          (draw(p) /\ canvas.path # <<>>)
          => LET painted == canvas'.marks[Len(canvas'.marks)]
             IN  /\ Len(canvas'.marks) = Len(canvas.marks) + 1
                 /\ SubSeq(canvas'.marks, 1, Len(canvas.marks)) = canvas.marks
                 /\ painted.kind = "stroke"
                 /\ painted.path = <<canvas.path[Len(canvas.path)], p>>]_vars

(***************************************************************************)
(* PlacingSpec.  The editor is open on the first image; the user picks a   *)
(* colour, places text with the text tool, types, confirms and cancels.    *)
(***************************************************************************)
NextPlacing ==
    \/ Quiet /\ OpenTab("draw")
    \/ Quiet /\ OpenTab("text")
    \/ Quiet /\ ColorClick
    \/ Quiet /\ SelectTextTool
    \/ Quiet /\ PressInIdle
    \/ Quiet /\ setCurrentText
    \/ Quiet /\ addTextAnnotation
    \/ Quiet /\ cancelText
    \/ animationFrame

PlacingSpec == InitExport /\ [][NextPlacing]_vars

NextPersist ==
    \/ Quiet /\ SelectBeforeDrawing
    \/ Quiet /\ OpenTab("filters")
    \/ Quiet /\ OpenTab("draw")
    \/ Quiet /\ OpenTab("text")
    \/ Quiet /\ ToggleInverted
    \/ Quiet /\ ToggleSepia
    \/ Quiet /\ ToggleGrayscale
    \/ Quiet /\ SetBlur
    \/ Quiet /\ SetBrightness
    \/ Quiet /\ SetContrast
    \/ Quiet /\ resetFilters
    \/ Quiet /\ SelectBrush
    \/ Quiet /\ SelectRectangle
    \/ Quiet /\ PressAtCorner
    \/ Quiet /\ MoveToFar
    \/ Quiet /\ ReleaseAtFar
    \/ onload
    \/ animationFrame

PersistSpec == InitExport /\ [][NextPersist]_vars

(***************************************************************************)
(* Persistence of committed strokes (C23).                                 *)
(***************************************************************************)
\* C23: committed brush and shape strokes persist across a change of a
\* non-rotation filter, a reset of the filters at rotation 0 and a switch
\* between the filters, draw and text tabs: where nothing is cleared,
\* erased, deleted, resized or rotated and the image is not switched, every
\* step keeps what the raster holds (it can only add to it).
C23_StrokesPersist ==
    [][/\ Len(canvas'.marks) >= Len(canvas.marks)
       /\ SubSeq(canvas'.marks, 1, Len(canvas.marks)) = canvas.marks]_vars

(***************************************************************************)
(* RotationSpec.  The editor is open on the first image, which earlier     *)
(* clicks on "Rotar" have turned by any number of quarters; the user edits *)
(* the filters, rotates, resets, picks images, applies, closes, reopens.   *)
(***************************************************************************)
InitRotation ==
    /\ InitFilter
    /\ \E r \in Rotations :
           editFilters = [rotation |-> r, inverted |-> FALSE, sepia |-> FALSE,
                          ref |-> 3]

NextRotation ==
    \/ Quiet /\ openEditModal
    \/ Quiet /\ SelectClick
    \/ Quiet /\ onClose
    \/ Quiet /\ handleUpdate
    \/ Quiet /\ Rotate
    \/ Quiet /\ ToggleInverted
    \/ Quiet /\ SetBrightness
    \/ Quiet /\ resetFilters
    \/ onload
    \/ animationFrame

RotationSpec == InitRotation /\ [][NextRotation]_vars

(***************************************************************************)
(* Rotation stays a multiple of a quarter turn (C24).                      *)
(***************************************************************************)
\* C24: in every reachable state the rotation of the editor's parameters and
\* of every session entry is one of 0, 90, 180, 270.  "Rotar" maps the
\* editor's rotation to (rotation + 90) mod 360, and three further quarter
\* turns lead back to the value before the click.  The editor's rotation is
\* changed by nothing else than "Rotar", reset (to 0) and loading the stored
\* parameters of the selected entry (the defaults where there is none); a
\* session entry's rotation changes only by receiving the editor's value on
\* apply.
C24_RotationIsQuarterTurns ==
    /\ [](/\ editFilters.rotation \in Rotations
          /\ \A j \in 1 .. Len(imageFilters) : imageFilters[j].rotation \in Rotations)
    /\ [][Rotate
          => /\ editFilters'.rotation = (editFilters.rotation + 90) % 360
             /\ rotateQuarter(rotateQuarter(rotateQuarter(editFilters'.rotation)))
                    = editFilters.rotation]_vars
    /\ [][editFilters'.rotation # editFilters.rotation
          => \/ Rotate
             \/ resetFilters /\ editFilters'.rotation = 0
             \/ /\ InRange(imageFilters', selectedImageIndex')
                /\ editFilters' = At(imageFilters', selectedImageIndex')
             \/ /\ ~InRange(imageFilters', selectedImageIndex')
                /\ editFilters' = defaultFilters]_vars
    /\ [][\A j \in 1 .. Len(imageFilters) :
             (Len(imageFilters') = Len(imageFilters)
              /\ imageFilters'[j].rotation # imageFilters[j].rotation)
             => /\ handleUpdate
                /\ j = selectedImageIndex + 1
                /\ imageFilters'[j].rotation = editFilters.rotation]_vars

\* the one edit of the behaviour was a click on "Rotar" at 270, and its
\* result, rotation 0 in a new object, has been applied to the first entry
C24_WrappedAndApplied ==
    /\ edits = 1
    /\ Len(imageFilters) = 2
    /\ imageFilters[1].ref \notin {NewEntryFilters(1).ref, 3, defaultFilters.ref}
    /\ imageFilters[1].rotation = 0
    /\ ~imageFilters[1].inverted
    /\ ~Has(imageFilters[1], "brightness")
    /\ leftWith # NotLeft

(***************************************************************************)
(* The TextAnnotation list after a deletion (C26).                         *)
(***************************************************************************)
DistinctIds(annotations) ==
    \A j, k \in 1 .. Len(annotations) :
        annotations[j].id = annotations[k].id => j = k

\* C26: deleting one TextAnnotation through its delete button, from a list
\* whose records have distinct ids, leaves the previous list without that
\* record, in the original order.
C26_DeleteRemovesOneRecord ==
    [][\A j \in 1 .. Len(textAnnotations) :
          (deleteAnnotation(j) /\ DistinctIds(textAnnotations))
          => textAnnotations' =
                 SubSeq(textAnnotations, 1, j - 1)
                 \o SubSeq(textAnnotations, j + 1, Len(textAnnotations))]_vars

(***************************************************************************)
(* The TextAnnotation list and the raster (C25).                           *)
(***************************************************************************)
\* the text stamps the raster holds
StampedTexts == {canvas.marks[k] : k \in {n \in 1 .. Len(canvas.marks) :
                                              canvas.marks[n].kind = "text"}}

\* the stamps of the records of the list
ListedTexts == {TextMark(textAnnotations[j]) : j \in 1 .. Len(textAnnotations)}

\* C25: in every reachable state the TextAnnotation list and the raster
\* agree while the editor is open: a record is in the list if and only if
\* its glyphs are stamped on the raster (so the raster is never emptied
\* while the list stays non-empty, and the list is never emptied while text
\* stamps remain).
C25_ListAgreesWithRaster == isEditModalOpen => ListedTexts = StampedTexts

(***************************************************************************)
(* InterleavedSpec.  InputBar and App with the editor closed: the user     *)
(* attaches, pastes, types, removes and sends at any moment, also while    *)
(* files are being read and while a send is preparing its payloads.  A     *)
(* send without previews awaits Promise.all([]), which resumes in a        *)
(* microtask, before any other event is handled.                           *)
(***************************************************************************)
ResumesAtOnce == \E s \in pendingSends : Len(s.previews) = 0

NextInterleaved ==
    \/ ~ResumesAtOnce /\ handleFileChange
    \/ ~ResumesAtOnce /\ handlePaste
    \/ ~ResumesAtOnce /\ setPrompt
    \/ ~ResumesAtOnce /\ RemoveImageClick
    \/ ~ResumesAtOnce /\ handleSend
    \/ ~ResumesAtOnce /\ onloadend
    \/ ~ResumesAtOnce /\ handleSendResume
    \/ ~ResumesAtOnce /\ runQueryReturns
    \/ \E s \in pendingSends : Len(s.previews) = 0 /\ handleSendResume

InterleavedSpec == InitSession /\ [][NextInterleaved]_vars

(***************************************************************************)
(* One query at a time (C27).                                              *)
(***************************************************************************)
\* C27: at most one send is under way at a time, from its trigger in
\* InputBar to the appending of its model or error message; every delivered
\* send appends one user message followed by one model or error message;
\* and isLoading is false once every send has finished.
C27_OneSendAtATime ==
    /\ Cardinality(pendingSends) + queries <= 1
    /\ \A j \in 1 .. Len(messages) : (messages[j] = "user") <=> (j % 2 = 1)
    /\ (pendingSends = {} /\ queries = 0) => ~isLoading

(***************************************************************************)
(* The three lists of InputBar (C28).                                      *)
(***************************************************************************)
\* C28: after any interleaving of attach, FileReader completion, remove and
\* send events, imagePreviews and imageFilters have equal length and change
\* together at the same positions (an entry is appended to both, removed
\* from both at one index, or both are emptied), and once no FileReader
\* callback is pending imageFiles has that same length.
C28_ListsStayAligned ==
    /\ [](Len(imagePreviews) = Len(imageFilters))
    /\ [][\/ UNCHANGED <<imagePreviews, imageFilters>>
          \/ /\ \E f \in Files : imagePreviews' = Append(imagePreviews, f)
             /\ Len(imageFilters') = Len(imageFilters) + 1
             /\ SubSeq(imageFilters', 1, Len(imageFilters)) = imageFilters
          \/ \E index \in 0 .. MaxImages :
                /\ InRange(imagePreviews, index)
                /\ imagePreviews' = RemoveAt(imagePreviews, index)
                /\ imageFilters' = RemoveAt(imageFilters, index)
          \/ imagePreviews' = <<>> /\ imageFilters' = <<>>]_vars
    /\ []((\A f \in Files : pendingReads[f] = 0)
          => Len(imageFiles) = Len(imagePreviews))

(***************************************************************************)
(* ServerSpec.  The image-history server receives save, update-title and   *)
(* delete requests while the client side rests with two images read.       *)
(***************************************************************************)
NextServer ==
    \/ postSaveImage
    \/ saveWriteImage
    \/ putImageTitle
    \/ deleteImage
    \/ deleteUnlink
    \/ readMetadata
    \/ writeMetadata

ServerSpec == TwoImagesRead /\ [][NextServer]_vars

(***************************************************************************)
(* No update of metadata.json is lost (C29).                               *)
(***************************************************************************)
AllSucceeded ==
    /\ requests = {}
    /\ \A j \in 1 .. Len(responses) : responses[j].status = 200

\* the position of the response to the save of filename, 0 if there is none
SavedAt(filename) ==
    IF \E j \in 1 .. Len(responses) :
           responses[j].kind = "save" /\ responses[j].filename = filename
    THEN CHOOSE j \in 1 .. Len(responses) :
             responses[j].kind = "save" /\ responses[j].filename = filename
    ELSE 0

\* filename was deleted by a request answered after its save was answered
DeletedAfterSave(filename) ==
    \E j \in 1 .. Len(responses) :
        /\ responses[j].kind = "delete" /\ responses[j].filename = filename
        /\ j > SavedAt(filename)

\* filename was the object of a delete request at all
DeleteRequested(filename) ==
    \E j \in 1 .. Len(responses) :
        responses[j].kind = "delete" /\ responses[j].filename = filename

\* the title of the last save or update-title answered for filename
LastTitle(filename) ==
    LET written == {j \in 1 .. Len(responses) :
                       /\ responses[j].filename = filename
                       /\ responses[j].kind \in {"save", "put"}}
        last == CHOOSE j \in written : \A k \in written : k <= j
    IN  responses[last].title

EntriesOf(filename) ==
    {j \in 1 .. Len(metadataFile.entries) :
        metadataFile.entries[j].filename = filename}

\* C29: when every request has completed successfully, metadata.json holds
\* exactly one entry for every image saved and not deleted, with the last
\* title written for it, and no entry for an image deleted after its save.
C29_NoLostUpdate ==
    AllSucceeded
    => \A filename \in Filenames :
           /\ (SavedAt(filename) > 0 /\ ~DeleteRequested(filename))
              => /\ Cardinality(EntriesOf(filename)) = 1
                 /\ \A j \in EntriesOf(filename) :
                        metadataFile.entries[j].title = LastTitle(filename)
           /\ (SavedAt(filename) > 0 /\ DeletedAfterSave(filename))
              => EntriesOf(filename) = {}

(***************************************************************************)
(* Closing the editor without applying (C30).                              *)
(***************************************************************************)
\* C30: closing the editor by the backdrop or the close button leaves every
\* session entry as it was and closes the editor; a session entry changes
\* only by apply, which replaces the entry at the active index by the
\* editor's parameters and closes the editor; and the images sent are
\* produced from the session entries, not from what the editor holds.
C30_CloseDiscardsEdits ==
    /\ [][onClose => imageFilters' = imageFilters /\ ~isEditModalOpen']_vars
    /\ [][\A j \in 1 .. Len(imageFilters) :
             (Len(imageFilters') = Len(imageFilters)
              /\ imageFilters'[j] # imageFilters[j])
             => /\ handleUpdate
                /\ j = selectedImageIndex + 1
                /\ imageFilters'[j] = editFilters
                /\ ~isEditModalOpen']_vars
    /\ [][handleSendResume
          => /\ Len(imagePayloads') = Len(imagePreviews)
             /\ \A j \in 1 .. Len(imagePreviews) :
                    imagePayloads'[j] =
                        applyFiltersToImage(imagePreviews[j], imageFilters[j])]_vars

\* the first image was rotated in the editor, the editor was closed without
\* applying, and the send then started holds the entry with rotation 0
C30_SentAfterDiscard ==
    /\ ~isEditModalOpen
    /\ selectedImageIndex = 0
    /\ editFilters.rotation = 90
    /\ \E s \in pendingSends :
           /\ Len(s.filters) = 2
           /\ s.filters[1] = NewEntryFilters(1)
           /\ s.filters[1].rotation = 0

=============================================================================
